---- MODULE Spec2Model ----
(***************************************************************************)
(* Job-search digest pipeline of the Dex vault (.scripts/job-search).      *)
(*                                                                         *)
(* State: the digest files (linkedin-jobs-<day>.md, as sequences of        *)
(* lines), the checkpoint store (digest-filter-state.json), and the        *)
(* position of the one enrichment invocation that may be running.          *)
(*                                                                         *)
(* A digest line is a record:                                              *)
(*   [kind |-> "text",  s]                  any line that is not a job     *)
(*   [kind |-> "count", best, other]        **Best match: b** | Other: o   *)
(*   [kind |-> "job",   mark, label, url]   - [m] [label](url)             *)
(* A label is [title, company, type, ok]; ok = FALSE stands for a label    *)
(* text that contains "]", which JOB_LINE_RE's [^\]]* does not accept.     *)
(* A url is [site, n]: site "linkedin" is .../jobs/view/<n>, any other     *)
(* site carries no /jobs/view/ id.                                         *)
(***************************************************************************)
EXTENDS Integers, Sequences, FiniteSets, TLC

VARIABLES
    digests,    \* [Days -> Seq(line)]: digests/linkedin-jobs-<day>.md, <<>> = no file
    store,      \* [Days -> [job id -> record]]: digest-filter-state.json, results per digest
    run,        \* the running invocation (runFilter or the export filter), or idle
    today,      \* the date the scripts read from the clock
    resolved,   \* history: identities the user has marked [x] or [-] in some digest
    applied,    \* history: [Days -> ids] whose record a document write has taken into account
    jobById,    \* the search scrape's collection: [job id -> [viewUrl, title]]
    collected,  \* history: the links the scrape has processed, in order, each with its pass
    intake,     \* one run of a collecting script: its seen sets, its results so far, the record last read
    applications, \* applications.yaml: the sequence of application records
    parked      \* a second invocation of the filter (another process): its local state while the first one steps

vars == <<digests, store, run, today, resolved, applied, jobById, collected, intake, applications, parked>>

\* The digest files, the checkpoint store and the enrichment run.
pipeline == <<digests, store, run, today, resolved, applied>>

\* What a step of the digest pipeline leaves alone: the scrape's collection,
\* the tracker, and the invocation that is not stepping.
others == <<jobById, collected, intake, applications, parked>>

\* ---------------------------------------------------------------- bounds
NumJobs == 2
MaxBatch == 2
MaxDay == 2
MaxRss == 1
MaxItems == 3
MaxRaw == 3
MaxApps == 2
MaxUpdates == 3
MaxMergeUpdates == 2
MaxDate == 4
MaxLines == 24
MaxFolders == 2

\* filter-digest-remote-playwright.cjs:32
DEFAULT_BATCH_SIZE == 15

Days == 1..MaxDay
JobIds == 1..NumJobs
\* a posting only the search page shows
SearchIds == 1..(NumJobs + 1)
Marks == {" ", "x", "-"}

\* ---------------------------------------------------------------- lines
Text(s) == [kind |-> "text", s |-> s]
Blank == Text("")
CountLine(b, o) == [kind |-> "count", best |-> b, other |-> o]
JobLine(m, l, u) == [kind |-> "job", mark |-> m, label |-> l, url |-> u]
Label(t, c, w, ok) == [title |-> t, company |-> c, type |-> w, ok |-> ok]
LinkedInUrl(n) == [site |-> "linkedin", n |-> n]
BoardUrl(n) == [site |-> "board", n |-> n]

OtherHeader == Text("## Other (PM roles, check if relevant)")
BestHeader == Text("## Best match (iGaming / target role)")
RssHeader == Text("## Remote job boards (RSS)")

\* getJobId: the digits after /jobs/view/, or null (0).
getJobId(url) == IF url.site = "linkedin" THEN url.n ELSE 0

\* JOB_LINE_RE.test(line)
IsJobLine(line) == line.kind = "job" /\ line.label.ok

\* /^-\s+\[[ x\-]\]\s+\[/ : a bullet with a checkbox, whatever follows
IsBullet(line) == line.kind = "job"

jobLineIndices(lines) == {i \in 1..Len(lines) : IsJobLine(lines[i])}

\* The lines of `lines` at the indices in `keep`, in order.
RECURSIVE KeepFrom(_, _, _)
KeepFrom(lines, keep, i) ==
    IF i > Len(lines) THEN <<>>
    ELSE (IF i \in keep THEN <<lines[i]>> ELSE <<>>) \o KeepFrom(lines, keep, i + 1)

RECURSIVE Flatten(_)
Flatten(ss) == IF ss = <<>> THEN <<>> ELSE Head(ss) \o Flatten(Tail(ss))

\* content.trimEnd() on the lines: trailing empty lines dropped.
RECURSIVE TrimEnd(_)
TrimEnd(lines) ==
    IF lines # <<>> /\ lines[Len(lines)] = Blank
    THEN TrimEnd(SubSeq(lines, 1, Len(lines) - 1))
    ELSE lines

\* ------------------------------------------------- email parser (step 1)
\* What the alert emails say about posting n: odd ids come as a bare
\* "View job" link with no company, even ids with title, company and type.
EmailJob(n) ==
    IF n % 2 = 1
    THEN [url |-> LinkedInUrl(n), title |-> "View job", company |-> "", workType |-> "unknown"]
    ELSE [url |-> LinkedInUrl(n), title |-> "Product Manager", company |-> "Acme", workType |-> "remote"]

Capitalize(w) ==
    CASE w = "unknown" -> "Unknown"
      [] w = "remote" -> "Remote"
      [] w = "hybrid" -> "Hybrid"
      [] w = "on-site" -> "On-site"
      [] OTHER -> w

\* fmt(j): "- [ ] [title | company | Type](url)"
fmt(j) ==
    JobLine(" ",
            Label(j.title, IF j.company = "" THEN "-" ELSE j.company,
                  Capitalize(j.workType), TRUE),
            j.url)

\* The digest main() writes for the scored jobs `best` and `other`.
ParserDigest(best, other) ==
    <<Text("# LinkedIn jobs (from your Job Alert emails)"), Blank,
      Text("*Parsed from inbox (last 7 days).*"),
      Text("*Applied/rejected (from previous digests) are excluded below.*"),
      Blank, CountLine(Len(best), Len(other)), Blank, Text("---"), Blank,
      BestHeader, Blank>>
    \o Flatten([i \in 1..Len(best) |-> <<fmt(best[i]), Blank>>])
    \o <<Text("---"), Blank, OtherHeader, Blank>>
    \o Flatten([i \in 1..Len(other) |-> <<fmt(other[i]), Blank>>])

\* The ids of `S` in ascending order.
RECURSIVE Ascending(_)
Ascending(S) ==
    IF S = {} THEN <<>>
    ELSE LET m == CHOOSE x \in S : \A y \in S : x <= y
         IN <<m>> \o Ascending(S \ {m})

\* getExcludedJobIdsFromPreviousDigests: ids of [x] / [-] lines in any digest file.
getExcludedJobIdsFromPreviousDigests ==
    UNION {{getJobId(digests[d][i].url) :
                i \in {k \in 1..Len(digests[d]) :
                          /\ IsJobLine(digests[d][k])
                          /\ digests[d][k].mark \in {"x", "-"}
                          /\ getJobId(digests[d][k].url) # 0}} : d \in Days}

\* ---------------------------------------------------------- checkpoint
Undef == "<undefined>"
NoLine == [kind |-> "none"]
RemoveRec == [remove |-> TRUE, newLine |-> NoLine, title |-> Undef,
              company |-> Undef, workType |-> Undef]
NewLineRec(line) == [remove |-> FALSE, newLine |-> line, title |-> Undef,
                     company |-> Undef, workType |-> Undef]
ExportRec(t, c, w) == [remove |-> FALSE, newLine |-> NoLine, title |-> t,
                       company |-> c, workType |-> w]
Empty == [x \in {} |-> RemoveRec]

\* stateResults[jobId], undefined when the id is null or has no record
HasRecord(results, id) == id # 0 /\ id \in DOMAIN results

\* Variant: the line after the blank is skipped as well.
BlankAfter_Wide(lines, i) ==
    IF i + 1 <= Len(lines) /\ lines[i + 1] = Blank
    THEN {i + 1} \cup (IF i + 2 <= Len(lines) THEN {i + 2} ELSE {})
    ELSE {}

\* lines[lineIdx + 1] === ''
BlankAfter(lines, i) == IF i + 1 <= Len(lines) /\ lines[i + 1] = Blank THEN {i + 1} ELSE {}

\* applyStateToDigest of filter-digest-remote-playwright.cjs
applyStateToDigest(lines, stateResults) ==
    LET hit == {i \in jobLineIndices(lines) : HasRecord(stateResults, getJobId(lines[i].url))}
        rem == {i \in hit : stateResults[getJobId(lines[i].url)].remove}
        upd == {i \in hit \ rem : stateResults[getJobId(lines[i].url)].newLine # NoLine}
    IN [toRemove |-> rem,
        skipBlankAfter |-> UNION {BlankAfter(lines, i) : i \in rem},
        lineUpdates |-> [i \in upd |-> stateResults[getJobId(lines[i].url)].newLine]]

\* The first header-count line of `lines` replaced by the given counts.
RECURSIVE ReplaceFirstCount(_, _, _)
ReplaceFirstCount(lines, b, o) ==
    IF lines = <<>> THEN <<>>
    ELSE IF Head(lines).kind = "count" THEN <<CountLine(b, o)>> \o Tail(lines)
    ELSE <<Head(lines)>> \o ReplaceFirstCount(Tail(lines), b, o)

\* writeDigestFromState: the new content of the file.
writeDigestFromState(lines, toRemove, skipBlankAfter, lineUpdates) ==
    LET kept == (1..Len(lines)) \ (toRemove \cup skipBlankAfter)
        inBest(i) == \A j \in kept : j <= i => lines[j] # OtherHeader
        bestCount == Cardinality({i \in kept : IsJobLine(lines[i]) /\ inBest(i)})
        otherCount == Cardinality({i \in kept : IsJobLine(lines[i]) /\ ~inBest(i)})
        shown == [i \in 1..Len(lines) |->
                     IF i \in DOMAIN lineUpdates THEN lineUpdates[i] ELSE lines[i]]
    IN ReplaceFirstCount(KeepFrom(shown, kept, 1), bestCount, otherCount)

\* getExistingJobIds: every /jobs/view/<id> link target in the digest
getExistingJobIds(lines) ==
    {getJobId(lines[i].url) : i \in {k \in 1..Len(lines) : lines[k].kind = "job"}} \ {0}

\* remaining: job lines with a LinkedIn id that has no record yet
remaining(lines, stateResults) ==
    {i \in jobLineIndices(lines) :
        getJobId(lines[i].url) # 0 /\ getJobId(lines[i].url) \notin DOMAIN stateResults}

\* The identities of a digest that still wait for their check.
PendingIn(lines, stateResults) ==
    {getJobId(lines[i].url) : i \in remaining(lines, stateResults)}
Pending(d) == PendingIn(digests[d], store[d])

\* filterStepNeeded of run-job-digest.cjs: some id of the digest has no record
filterStepNeeded(d) == \E id \in getExistingJobIds(KeepFrom(digests[d], jobLineIndices(digests[d]), 1)) :
                           id \notin DOMAIN store[d]

\* ------------------------------------------------------ the job page
\* What page.goto() can come back with for a posting.
Responses == {"authwall", "error", "closed", "hybrid", "remote", "unknown", "bracket"}
Unreachable == {"authwall", "error"}

\* parseTitleAndCompanyFromPageTitle / getCompanyFromPage / getWorkTypeFromPage
\* for the page behind each response; okText = the text holds no "]".
PageOf(resp) ==
    CASE resp = "remote" ->
            [title |-> "Senior Product Manager", company |-> "Initech", workType |-> "remote", okText |-> TRUE]
      [] resp = "bracket" ->
            [title |-> "Senior Product Manager", company |-> "Initech [EU]", workType |-> "remote", okText |-> FALSE]
      [] resp = "hybrid" ->
            [title |-> "Senior Product Manager", company |-> "Initech", workType |-> "hybrid", okText |-> TRUE]
      [] OTHER ->
            [title |-> "", company |-> "", workType |-> "unknown", okText |-> TRUE]

\* isGenericLinkText: "View job" (the other titles here have 4 characters or more)
isGenericLinkText(label) == label.title = "View job"

\* The rewritten line of runFilter's keep branch: prefix and suffix of the
\* line as read, title / company / type from the page.
EnrichedLine(line, page) ==
    LET title == IF isGenericLinkText(line.label) /\ page.title # "" THEN page.title
                 ELSE line.label.title
        company == IF page.company # "" THEN page.company ELSE "-"
    IN JobLine(line.mark, Label(title, company, Capitalize(page.workType), page.okText), line.url)


IdleRun == [pc |-> "idle", day |-> 0, lines |-> <<>>, results |-> Empty,
            toRemove |-> {}, skipBlankAfter |-> {}, lineUpdates |-> Empty,
            processed |-> 0, k |-> 0, limited |-> FALSE, batch |-> 0,
            resp |-> "", ret |-> FALSE, skipped |-> {}]

\* ----------------------------------------------------------------- init
\* The first day's digest as the email parser wrote it: the odd postings
\* scored as best matches, the even ones as other.
EmailJobs(S) == [i \in 1..Cardinality(S) |-> EmailJob(Ascending(S)[i])]
FirstDigest ==
    ParserDigest(EmailJobs({n \in JobIds : n % 2 = 1}), EmailJobs({n \in JobIds : n % 2 = 0}))

Init ==
    /\ today = 1
    /\ digests = [d \in Days |-> IF d = 1 THEN FirstDigest ELSE <<>>]
    /\ store = [d \in Days |-> Empty]
    /\ run = IdleRun
    /\ resolved = {}
    /\ applied = [d \in Days |-> {}]
    /\ jobById = <<>>
    /\ collected = <<>>
    /\ intake = [source |-> "none", seenJobIds |-> {}, seenUrls |-> {}, excludedUrls |-> {}, results |-> <<>>, read |-> 0,
                last |-> [url |-> [site |-> "null", n |-> 0], title |-> <<>>, company |-> "", fits |-> FALSE]]
    /\ applications = <<>>
    /\ parked = IdleRun

\* ----------------------------------------------------------------- user
\* The user ticks a digest line: [ ] becomes [x] (applied) or [-] (rejected).
UserMark(d, i, m) ==
    /\ run.pc = "idle"
    /\ digests[d] # <<>>
    /\ i \in 1..Len(digests[d])
    /\ digests[d][i].kind = "job"
    /\ digests[d][i].mark = " "
    /\ m \in {"x", "-"}
    /\ digests' = [digests EXCEPT ![d][i].mark = m]
    /\ resolved' = resolved \cup {digests[d][i].url}
    /\ UNCHANGED <<store, run, today, applied>>

\* ------------------------------------------------------------ runFilter
\* node filter-digest-remote-playwright.cjs <digest> [--batch=N] with pending
\* work: read the file, load and apply the checkpoint, open the browser.
StartRun(d, limited, batch) ==
    /\ run.pc = "idle"
    /\ digests[d] # <<>>
    /\ jobLineIndices(digests[d]) # {}
    /\ remaining(digests[d], store[d]) # {}
    /\ LET a == applyStateToDigest(digests[d], store[d])
       IN run' = [IdleRun EXCEPT !.pc = "loop", !.day = d, !.lines = digests[d],
                                 !.results = store[d], !.toRemove = a.toRemove,
                                 !.skipBlankAfter = a.skipBlankAfter,
                                 !.lineUpdates = a.lineUpdates,
                                 !.k = 1, !.limited = limited, !.batch = batch]
    /\ UNCHANGED <<digests, store, today, resolved, applied>>

\* The same invocation when nothing remains: the document is rewritten from
\* the checkpoint and the run returns without touching the store.
StartRunAllDone(d) ==
    /\ run.pc = "idle"
    /\ digests[d] # <<>>
    /\ jobLineIndices(digests[d]) # {}
    /\ remaining(digests[d], store[d]) = {}
    /\ LET a == applyStateToDigest(digests[d], store[d])
       IN digests' = [digests EXCEPT ![d] =
              writeDigestFromState(digests[d], a.toRemove, a.skipBlankAfter, a.lineUpdates)]
    /\ applied' = [applied EXCEPT ![d] = @ \cup DOMAIN store[d]]
    /\ UNCHANGED <<store, run, today, resolved>>

\* Variant: the loop without its `if (stateResults[jobId]) continue`.
ToVisit_NoSkip ==
    {i \in jobLineIndices(run.lines) : getJobId(run.lines[i].url) # 0 /\ i >= run.k}

\* Lines the batch loop has still to visit and would fetch.
ToVisit == {i \in remaining(run.lines, run.results) : i >= run.k}

\* Variant: the loop runs over the job lines from the last to the first.
Navigate_Last(resp) ==
    /\ run.pc = "loop"
    /\ ToVisit # {}
    /\ LET i == CHOOSE x \in ToVisit : \A y \in ToVisit : x >= y
       IN run' = [run EXCEPT !.pc = "page", !.k = i, !.resp = resp]
    /\ UNCHANGED <<digests, store, today, resolved, applied>>

\* Loop head up to page.goto(viewUrl): the next line without a record is fetched.
Navigate(resp) ==
    /\ run.pc = "loop"
    /\ ToVisit # {}
    /\ LET i == CHOOSE x \in ToVisit : \A y \in ToVisit : x <= y
       IN run' = [run EXCEPT !.pc = "page", !.k = i, !.resp = resp]
    /\ UNCHANGED <<digests, store, today, resolved, applied>>

\* Variant: the batch limit compared with > instead of >=.
hitBatchLimit_Late(r, processed) == r.limited /\ processed > r.batch

\* hitBatchLimit / periodicSave for a given processedThisRun
hitBatchLimit(r, processed) == r.limited /\ processed >= r.batch
periodicSave(r, processed) ==
    ~r.limited /\ processed > 0 /\ processed % DEFAULT_BATCH_SIZE = 0

\* Tail of the loop body (lines 381-402) after a result or an exception.
AfterItem(r, processed) ==
    IF hitBatchLimit(r, processed) \/ periodicSave(r, processed)
    THEN [r EXCEPT !.pc = "write", !.processed = processed,
                   !.ret = hitBatchLimit(r, processed)]
    ELSE [r EXCEPT !.pc = "loop", !.processed = processed, !.k = r.k + 1]

\* Variant: the authwall branch records the posting as removed.
HandleAuthwall_Records ==
    /\ run.pc = "page"
    /\ run.resp = "authwall"
    /\ run' = [run EXCEPT !.pc = "loop", !.k = run.k + 1,
                          !.results = (getJobId(run.lines[run.k].url) :> RemoveRec) @@ @,
                          !.skipped = @ \cup {getJobId(run.lines[run.k].url)}]
    /\ UNCHANGED <<digests, store, today, resolved, applied>>

\* Login / authwall / checkpoint page: `continue`, nothing recorded.
HandleAuthwall ==
    /\ run.pc = "page"
    /\ run.resp = "authwall"
    /\ run' = [run EXCEPT !.pc = "loop", !.k = run.k + 1,
                          !.skipped = @ \cup {getJobId(run.lines[run.k].url)}]
    /\ UNCHANGED <<digests, store, today, resolved, applied>>

\* Variant: the catch block leaves the loop (break) instead of going on.
HandleError_Abort ==
    /\ run.pc = "page"
    /\ run.resp = "error"
    /\ run' = [run EXCEPT !.pc = "write", !.ret = TRUE,
                          !.skipped = @ \cup {getJobId(run.lines[run.k].url)}]
    /\ UNCHANGED <<digests, store, today, resolved, applied>>

\* page.goto() throws: the catch logs, the loop body runs on to its tail.
HandleError ==
    /\ run.pc = "page"
    /\ run.resp = "error"
    /\ run' = AfterItem([run EXCEPT !.skipped = @ \cup {getJobId(run.lines[run.k].url)}],
                        run.processed)
    /\ UNCHANGED <<digests, store, today, resolved, applied>>

\* Closed, hybrid or on-site posting: { remove: true }.
HandleRemove ==
    /\ run.pc = "page"
    /\ run.resp \in {"closed", "hybrid"}
    /\ LET id == getJobId(run.lines[run.k].url)
           r == [run EXCEPT !.results = (id :> RemoveRec) @@ @,
                            !.toRemove = @ \cup {run.k},
                            !.skipBlankAfter = @ \cup BlankAfter(run.lines, run.k)]
       IN run' = AfterItem(r, run.processed + 1)
    /\ UNCHANGED <<digests, store, today, resolved, applied>>

\* Remote or unknown posting: { remove: false, newLine }.
HandleKeep ==
    /\ run.pc = "page"
    /\ run.resp \in {"remote", "unknown", "bracket"}
    /\ LET id == getJobId(run.lines[run.k].url)
           nl == EnrichedLine(run.lines[run.k], PageOf(run.resp))
           r == [run EXCEPT !.results = (id :> NewLineRec(nl)) @@ @,
                            !.lineUpdates = (run.k :> nl) @@ @]
       IN run' = AfterItem(r, run.processed + 1)
    /\ UNCHANGED <<digests, store, today, resolved, applied>>

\* The loop ran off its end: lines 405-407 follow.
LoopEnd ==
    /\ run.pc = "loop"
    /\ ToVisit = {}
    /\ run' = [run EXCEPT !.pc = "write", !.ret = TRUE]
    /\ UNCHANGED <<digests, store, today, resolved, applied>>

\* Variant: the store is saved where the document should be written.
WriteDigest_StoreFirst ==
    /\ run.pc = "write"
    /\ store' = [store EXCEPT ![run.day] = run.results]
    /\ run' = [run EXCEPT !.pc = "save"]
    /\ UNCHANGED <<digests, today, resolved, applied>>

\* writeDigestFromState(filePath, lines, toRemove, skipBlankAfter, lineUpdates)
WriteDigest ==
    /\ run.pc = "write"
    /\ digests' = [digests EXCEPT ![run.day] =
           writeDigestFromState(run.lines, run.toRemove, run.skipBlankAfter, run.lineUpdates)]
    /\ applied' = [applied EXCEPT ![run.day] = @ \cup DOMAIN run.results]
    /\ run' = [run EXCEPT !.pc = "save"]
    /\ UNCHANGED <<store, today, resolved>>

\* Variant: the save is lost.
SaveState_Lost ==
    /\ run.pc = "save"
    /\ run' = IF run.ret THEN IdleRun ELSE [run EXCEPT !.pc = "loop", !.k = run.k + 1]
    /\ UNCHANGED <<digests, store, today, resolved, applied>>

\* saveFilterState(digestName, { results: stateResults })
SaveState ==
    /\ run.pc = "save"
    /\ store' = [store EXCEPT ![run.day] = run.results]
    /\ run' = IF run.ret THEN IdleRun ELSE [run EXCEPT !.pc = "loop", !.k = run.k + 1]
    /\ UNCHANGED <<digests, today, resolved, applied>>

\* The process is killed (Ctrl-C, crash, power loss) between two steps.
Kill ==
    /\ run.pc # "idle"
    /\ run' = IdleRun
    /\ UNCHANGED <<digests, store, today, resolved, applied>>

\* ------------------------------------------- filter-digest-from-export
\* What exportAll() of the browser extension puts under filter.results for
\* a captured page: removal, or a capture whose title selector found
\* nothing (job_title falls back to the dash).
ExportRecords ==
    {RemoveRec, ExportRec("-", "Initech", "Remote")}
ExportFiles == {(id :> rec) : id \in JobIds, rec \in ExportRecords}

\* A line rebuilt from the current prefix / suffix and the saved fields.
RebuiltLine(line, saved) ==
    JobLine(line.mark,
            Label(IF saved.title \notin {Undef, ""} THEN saved.title ELSE line.label.title,
                  IF saved.company \notin {Undef, ""} THEN saved.company ELSE "-",
                  IF saved.workType \notin {Undef, ""} THEN saved.workType ELSE "Unknown",
                  TRUE),
            line.url)

HasFields(saved) == saved.title # Undef \/ saved.company # Undef \/ saved.workType # Undef

\* applyStateToDigest of filter-digest-from-export.cjs
applyStateToDigestExport(lines, stateResults) ==
    LET hit == {i \in jobLineIndices(lines) : HasRecord(stateResults, getJobId(lines[i].url))}
        rem == {i \in hit : stateResults[getJobId(lines[i].url)].remove}
        upd == {i \in hit \ rem : HasFields(stateResults[getJobId(lines[i].url)])}
    IN [toRemove |-> rem,
        skipBlankAfter |-> UNION {BlankAfter(lines, i) : i \in rem},
        lineUpdates |-> [i \in upd |-> RebuiltLine(lines[i], stateResults[getJobId(lines[i].url)])]]

\* main() of filter-digest-from-export.cjs up to writeDigestFromState (line 143)
ExportWrite(d, exportResults) ==
    /\ run.pc = "idle"
    /\ digests[d] # <<>>
    /\ LET stateResults == exportResults @@ store[d]
           a == applyStateToDigestExport(digests[d], stateResults)
       IN /\ digests' = [digests EXCEPT ![d] =
                 writeDigestFromState(digests[d], a.toRemove, a.skipBlankAfter, a.lineUpdates)]
          /\ applied' = [applied EXCEPT ![d] = @ \cup DOMAIN stateResults]
          /\ run' = [IdleRun EXCEPT !.pc = "xsave", !.day = d, !.results = stateResults]
    /\ UNCHANGED <<store, today, resolved>>

\* ... and its saveFilterState (line 144)
ExportSave ==
    /\ run.pc = "xsave"
    /\ store' = [store EXCEPT ![run.day] = run.results]
    /\ run' = IdleRun
    /\ UNCHANGED <<digests, today, resolved, applied>>

\* ---------------------------------------------------- apply-filter-state
\* applyStateToDigest of apply-filter-state.cjs
applyStateToDigestApply(lines, stateResults) ==
    LET hit == {i \in jobLineIndices(lines) : HasRecord(stateResults, getJobId(lines[i].url))}
        rem == {i \in hit : stateResults[getJobId(lines[i].url)].remove}
        upd == {i \in hit \ rem : \/ stateResults[getJobId(lines[i].url)].newLine # NoLine
                                   \/ HasFields(stateResults[getJobId(lines[i].url)])}
    IN [toRemove |-> rem,
        skipBlankAfter |-> UNION {BlankAfter(lines, i) : i \in rem},
        lineUpdates |-> [i \in upd |->
            LET saved == stateResults[getJobId(lines[i].url)]
            IN IF saved.newLine # NoLine THEN saved.newLine ELSE RebuiltLine(lines[i], saved)]]

\* node apply-filter-state.cjs <digest>
ApplyFilterState(d) ==
    /\ run.pc = "idle"
    /\ digests[d] # <<>>
    /\ store[d] # Empty
    /\ LET a == applyStateToDigestApply(digests[d], store[d])
       IN digests' = [digests EXCEPT ![d] =
              writeDigestFromState(digests[d], a.toRemove, a.skipBlankAfter, a.lineUpdates)]
    /\ applied' = [applied EXCEPT ![d] = @ \cup DOMAIN store[d]]
    /\ UNCHANGED <<store, run, today, resolved>>

RunStep ==
    \/ \E resp \in Responses : Navigate(resp) /\ UNCHANGED others
    \/ HandleAuthwall /\ UNCHANGED others
    \/ HandleError /\ UNCHANGED others
    \/ HandleRemove /\ UNCHANGED others
    \/ HandleKeep /\ UNCHANGED others
    \/ LoopEnd /\ UNCHANGED others
    \/ WriteDigest /\ UNCHANGED others
    \/ SaveState /\ UNCHANGED others

\* -------------------------------------------------- parse-linkedin-job-emails
\* main(): the alert emails of the last days mention the postings E; those
\* marked applied / rejected in any digest file are dropped, the rest is
\* scored and written over today's file.
EmailParse(E) ==
    /\ run.pc = "idle"
    /\ LET kept == E \ getExcludedJobIdsFromPreviousDigests
       IN digests' = [digests EXCEPT ![today] =
              ParserDigest(EmailJobs({n \in kept : n % 2 = 1}),
                           EmailJobs({n \in kept : n % 2 = 0}))]
    /\ UNCHANGED <<store, run, today, resolved, applied>>

\* ------------------------------------------------------ fetch-remote-pm-rss
RssJobLine(n) == JobLine(" ", Label("Product Manager", "Remotive", "", TRUE), BoardUrl(n))

\* block: section header, intro, stats line, then per feed a "### feed (n)"
\* heading and its job lines, joined with blank lines.
RssBlock(R) ==
    <<Blank, RssHeader, Blank, Text("*feeds intro*"), Text("**feeds stats**"), Blank, Blank>>
    \o (IF R = {} THEN <<>>
        ELSE <<Text("### Remotive"), Blank>>
             \o Flatten([i \in 1..Cardinality(R) |-> <<Blank, RssJobLine(Ascending(R)[i])>>])
             \o <<Blank>>)

\* The digest main() starts from when today's file does not exist.
MinimalDigest ==
    <<Text("# Job digest"), Blank, Text("*Sources: LinkedIn (email) + RSS.*"),
      Text("*[ ] to process | [x] applied | [-] rejected.*")>>

\* mainContent.includes('## Remote job boards (RSS)')
HasRssSection(lines) == \E i \in 1..Len(lines) : lines[i] = RssHeader

\* main(), merge step: the feeds returned the product roles R.
RssMerge(R) ==
    /\ run.pc = "idle"
    /\ LET mainContent == IF digests[today] # <<>> THEN digests[today] ELSE MinimalDigest
       IN /\ ~HasRssSection(mainContent)
          /\ digests' = [digests EXCEPT ![today] = TrimEnd(mainContent) \o RssBlock(R)]
    /\ UNCHANGED <<store, run, today, resolved, applied>>

\* ------------------------------------------- scrape-linkedin-search-playwright
\* parseDigest: index of the "## Other" heading, 0 when there is none
otherStart(lines) ==
    IF \E i \in 1..Len(lines) : lines[i] = OtherHeader
    THEN CHOOSE i \in 1..Len(lines) :
            lines[i] = OtherHeader /\ \A j \in 1..(i - 1) : lines[j] # OtherHeader
    ELSE 0

\* updateHeaderCount: the Best number is kept, Other is set
updateHeaderCount(headerLines, otherCount) ==
    LET hs == {i \in 1..Len(headerLines) : headerLines[i].kind = "count"}
        bestNum == IF hs = {} THEN 0
                   ELSE headerLines[CHOOSE i \in hs : \A j \in hs : i <= j].best
    IN [i \in 1..Len(headerLines) |->
           IF headerLines[i].kind = "count" THEN CountLine(bestNum, otherCount)
           ELSE headerLines[i]]

ScrapeBullet(n) == JobLine(" ", Label("Product Manager", "-", "Remote", TRUE), LinkedInUrl(n))

\* runScrape, lines 585-618: the search page listed the postings S.
ScrapeInsert(d, S) ==
    /\ run.pc = "idle"
    /\ digests[d] # <<>>
    /\ LET lines == digests[d]
           newJobs == Ascending(S \ getExistingJobIds(lines))
           os == otherStart(lines)
           headerLines == SubSeq(lines, 1, os + 1)
           otherLines == SubSeq(lines, os + 2, Len(lines))
           currentOtherCount == Cardinality({i \in 1..Len(otherLines) : IsBullet(otherLines[i])})
       IN /\ newJobs # <<>>
          /\ os # 0
          /\ digests' = [digests EXCEPT ![d] =
                 updateHeaderCount(headerLines, currentOtherCount + Len(newJobs))
                 \o [i \in 1..Len(newJobs) |-> ScrapeBullet(newJobs[i])]
                 \o (IF otherLines \in {<<>>, <<Blank>>} THEN <<>> ELSE otherLines)
                 \o <<Blank>>]
    /\ UNCHANGED <<store, run, today, resolved, applied>>

\* Midnight passes.
NextDay ==
    /\ run.pc = "idle"
    /\ today < MaxDay
    /\ today' = today + 1
    /\ UNCHANGED <<digests, store, run, resolved, applied>>

Next ==
    \/ \E i \in DOMAIN digests[today] : UserMark(today, i, "x") /\ UNCHANGED others
    \/ \E batch \in 1..MaxBatch : StartRun(today, TRUE, batch) /\ UNCHANGED others
    \/ StartRun(today, FALSE, 0) /\ UNCHANGED others
    \/ StartRunAllDone(today) /\ UNCHANGED others
    \/ RunStep
    \/ \E x \in ExportFiles : ExportWrite(today, x) /\ UNCHANGED others
    \/ ExportSave /\ UNCHANGED others
    \/ ApplyFilterState(today) /\ UNCHANGED others
    \/ Kill /\ UNCHANGED others

Spec == Init /\ [][Next]_vars

\* The producers of digests and the user, over several days.
NextDigests ==
    \/ \E i \in DOMAIN digests[today], m \in Marks : UserMark(today, i, m) /\ UNCHANGED others
    \/ EmailParse(JobIds) /\ UNCHANGED others
    \/ RssMerge(1..MaxRss) /\ UNCHANGED others
    \/ ScrapeInsert(today, SearchIds) /\ UNCHANGED others
    \/ NextDay /\ UNCHANGED others

SpecDigests == Init /\ [][NextDigests]_vars

\* Enrichment invocations alone, with LinkedIn reachable and nobody
\* interrupting: every page answers, every started step completes, and the
\* scheduled job keeps invoking the filter.
Reachable == Responses \ Unreachable

NextEnrich ==
    \/ \E batch \in 1..MaxBatch : StartRun(today, TRUE, batch) /\ UNCHANGED others
    \/ StartRun(today, FALSE, 0) /\ UNCHANGED others
    \/ StartRunAllDone(today) /\ UNCHANGED others
    \/ \E resp \in Reachable : Navigate(resp) /\ UNCHANGED others
    \/ HandleRemove /\ UNCHANGED others
    \/ HandleKeep /\ UNCHANGED others
    \/ LoopEnd /\ UNCHANGED others
    \/ WriteDigest /\ UNCHANGED others
    \/ SaveState /\ UNCHANGED others

SpecEnrich == Init /\ [][NextEnrich]_vars /\ WF_vars(NextEnrich)
\* ------------------------------------ scrape-linkedin-search-playwright
\* Text whose characters the code inspects is a sequence of one-character
\* strings.  A link found on the search page is [href, title]; an href is
\* [site, n, query], n being the digits after /jobs/view/.
Letters == <<"a", "b", "c", "d", "e", "f", "g", "h", "i", "j", "k", "l", "m", "n", "o", "p", "q", "r", "s", "t", "u", "v", "w", "x", "y", "z">>
Capitals == <<"A", "B", "C", "D", "E", "F", "G", "H", "I", "J", "K", "L", "M", "N", "O", "P", "Q", "R", "S", "T", "U", "V", "W", "X", "Y", "Z">>
Digits == {"0", "1", "2", "3", "4", "5", "6", "7", "8", "9"}
WordChars == {Letters[k] : k \in DOMAIN Letters} \cup {Capitals[k] : k \in DOMAIN Capitals} \cup Digits \cup {"_"}

toLowerCase(t) ==
    [i \in DOMAIN t |->
        IF \E k \in DOMAIN Capitals : Capitals[k] = t[i]
        THEN Letters[CHOOSE k \in DOMAIN Capitals : Capitals[k] = t[i]]
        ELSE t[i]]

\* String.prototype.trim and .replace(/\s+/g, ' ')
RECURSIVE trim(_)
trim(t) ==
    IF t # <<>> /\ t[1] = " " THEN trim(Tail(t))
    ELSE IF t # <<>> /\ t[Len(t)] = " " THEN trim(SubSeq(t, 1, Len(t) - 1))
    ELSE t
collapseSpaces(t) == KeepFrom(t, {i \in DOMAIN t : ~(t[i] = " " /\ i > 1 /\ t[i - 1] = " ")}, 1)

\* t.slice(a, b) with 0 <= a
slice(t, a, b) == SubSeq(t, a + 1, IF b < Len(t) THEN b ELSE Len(t))

\* p occurs in t from position i (1-based)
MatchAt(t, p, i) == i >= 1 /\ i + Len(p) - 1 <= Len(t) /\ SubSeq(t, i, i + Len(p) - 1) = p
Contains(t, p) == \E i \in 1..Len(t) : MatchAt(t, p, i)
\* \b between positions k and k+1
IsWordAt(t, k) == k >= 1 /\ k <= Len(t) /\ t[k] \in WordChars
Boundary(t, k) == IsWordAt(t, k) # IsWordAt(t, k + 1)
ContainsWord(t, p) == \E i \in 1..Len(t) : MatchAt(t, p, i) /\ Boundary(t, i - 1) /\ Boundary(t, i + Len(p) - 1)

View_job == <<"V", "i", "e", "w", " ", "j", "o", "b">>
Jobs_similar_to == <<"j", "o", "b", "s", " ", "s", "i", "m", "i", "l", "a", "r", " ", "t", "o", " ">>
With_verification == <<"w", "i", "t", "h", " ", "v", "e", "r", "i", "f", "i", "c", "a", "t", "i", "o", "n">>
PmPhrases ==
    {<<"p", "r", "o", "d", "u", "c", "t", " ", "m", "a", "n", "a", "g", "e", "r">>,
     <<"p", "r", "o", "d", "u", "c", "t", " ", "o", "w", "n", "e", "r">>,
     <<"h", "e", "a", "d", " ", "o", "f", " ", "p", "r", "o", "d", "u", "c", "t">>,
     <<"c", "h", "i", "e", "f", " ", "p", "r", "o", "d", "u", "c", "t">>,
     <<"c", "o", "m", "p", "l", "i", "a", "n", "c", "e", " ", "m", "a", "n", "a", "g", "e", "r">>}
EngineerPhrases ==
    {<<"s", "o", "f", "t", "w", "a", "r", "e", " ", "e", "n", "g", "i", "n", "e", "e", "r">>,
     <<"c", "#", " ", "e", "n", "g", "i", "n", "e", "e", "r">>,
     <<".", "n", "e", "t", " ", "e", "n", "g", "i", "n", "e", "e", "r">>,
     <<"j", "a", "v", "a", " ", "e", "n", "g", "i", "n", "e", "e", "r">>,
     <<"r", "&", "d", " ", "e", "n", "g", "i", "n", "e", "e", "r">>,
     <<"b", "a", "c", "k", "e", "n", "d", " ", "e", "n", "g", "i", "n", "e", "e", "r">>,
     <<"f", "r", "o", "n", "t", "e", "n", "d", " ", "e", "n", "g", "i", "n", "e", "e", "r">>,
     <<"f", "u", "l", "l", "s", "t", "a", "c", "k", " ", "e", "n", "g", "i", "n", "e", "e", "r">>,
     <<"f", "u", "l", "l", "s", "t", "a", "c", " ", "e", "n", "g", "i", "n", "e", "e", "r">>,
     <<"d", "e", "v", "o", "p", "s", " ", "e", "n", "g", "i", "n", "e", "e", "r">>,
     <<"q", "a", " ", "e", "n", "g", "i", "n", "e", "e", "r">>,
     <<"d", "a", "t", "a", " ", "e", "n", "g", "i", "n", "e", "e", "r">>,
     <<"m", "l", " ", "e", "n", "g", "i", "n", "e", "e", "r">>,
     <<"g", "a", "m", "e", " ", "e", "n", "g", "i", "n", "e", "e", "r">>}
DeveloperPhrases ==
    {<<"b", "a", "c", "k", "e", "n", "d", " ", "d", "e", "v", "e", "l", "o", "p", "e", "r">>,
     <<"f", "r", "o", "n", "t", "e", "n", "d", " ", "d", "e", "v", "e", "l", "o", "p", "e", "r">>,
     <<"f", "u", "l", "l", "s", "t", "a", "c", "k", " ", "d", "e", "v", "e", "l", "o", "p", "e", "r">>,
     <<"f", "u", "l", "l", "s", "t", "a", "c", " ", "d", "e", "v", "e", "l", "o", "p", "e", "r">>,
     <<".", "n", "e", "t", " ", "d", "e", "v", "e", "l", "o", "p", "e", "r">>,
     <<"j", "a", "v", "a", " ", "d", "e", "v", "e", "l", "o", "p", "e", "r">>,
     <<"c", "#", " ", "d", "e", "v", "e", "l", "o", "p", "e", "r">>}

\* install-job-tracker.sh (scrape-linkedin-search-playwright.cjs part) :88, :89, :608
MIN_HALF == 10
TITLE_CAP == 200
BULLET_TITLE_CAP == 120

\* getJobViewUrl: the canonical link of the posting, or null without an id
NoUrl == [site |-> "null", n |-> 0]
getJobViewUrl(href) == IF getJobId(href) # 0 THEN LinkedInUrl(getJobId(href)) ELSE NoUrl

isNonPmRole(title) ==
    LET t == toLowerCase(title)
    IN IF title = <<>> THEN FALSE
       ELSE IF (\E p \in PmPhrases : Contains(t, p))
               \/ (\E i \in 1..Len(t) : MatchAt(t, <<"c", "p", "o">>, i) /\ Boundary(t, i + 2))
            THEN FALSE
       ELSE IF \E p \in EngineerPhrases : ContainsWord(t, p) THEN TRUE
       ELSE IF \E p \in DeveloperPhrases : ContainsWord(t, p) THEN TRUE
       ELSE ContainsWord(t, <<"d", "e", "v", "e", "l", "o", "p", "e", "r">>) /\ ~Contains(t, <<"p", "r", "o", "d", "u", "c", "t">>)

isJobsSimilarLink(title) == MatchAt(toLowerCase(trim(title)), Jobs_similar_to, 1)

RECURSIVE trimRight(_)
trimRight(t) == IF t # <<>> /\ t[Len(t)] = " " THEN trimRight(SubSeq(t, 1, Len(t) - 1)) ELSE t

\* .replace(/\s+with verification\s*$/i, '')
stripVerification(t) ==
    LET u == trimRight(t)
        n == Len(u) - Len(With_verification)
    IN IF n >= 1 /\ u[n] = " " /\ MatchAt(toLowerCase(u), With_verification, n + 1)
       THEN trimRight(SubSeq(u, 1, n))
       ELSE t

normalizeTitle(title) ==
    IF title = <<>> THEN View_job
    ELSE LET t == collapseSpaces(trim(stripVerification(title)))
             half == Len(t) \div 2
             u == IF half > MIN_HALF /\ slice(t, 0, half) = slice(t, half, half + half)
                  THEN slice(t, 0, half) ELSE t
         IN IF Len(u) > 0 THEN slice(u, 0, TITLE_CAP) ELSE View_job

\* The links the search page can show.  Posting 123 appears as a card whose
\* image link has no text and whose title link has; posting 2 is in the
\* digest already; the last href is not a job link.
Href(site, n, q) == [site |-> site, n |-> n, query |-> q]
Senior_PM_verified == <<"S", "e", "n", "i", "o", "r", " ", "P", "M", " ", "(", "v", "e", "r", "i", "f", "i", "e", "d", ")">>
Senior_Product_Manager == <<"S", "e", "n", "i", "o", "r", " ", "P", "r", "o", "d", "u", "c", "t", " ", "M", "a", "n", "a", "g", "e", "r">>
Product_Manager == <<"P", "r", "o", "d", "u", "c", "t", " ", "M", "a", "n", "a", "g", "e", "r">>
RawItems ==
    {[href |-> Href("linkedin", 123, "?x=1"), title |-> Senior_PM_verified \o <<" ">> \o Senior_PM_verified],
     [href |-> Href("linkedin", 123, ""), title |-> Senior_Product_Manager],
     [href |-> Href("linkedin", 123, ""), title |-> <<>>],
     [href |-> Href("linkedin", 123, ""), title |-> Product_Manager \o Product_Manager],
     [href |-> Href("linkedin", 123, ""), title |-> Product_Manager \o <<" ", " ", "w", "i", "t", "h", " ", "V", "e", "r", "i", "f", "i", "c", "a", "t", "i", "o", "n", " ">>],
     [href |-> Href("linkedin", 123, ""), title |-> <<"J", "o", "b", "s", " ", "s", "i", "m", "i", "l", "a", "r", " ", "t", "o", " ", "P", "r", "o", "d", "u", "c", "t", " ", "M", "a", "n", "a", "g", "e", "r", " ", "a", "t", " ", "A", "c", "m", "e">>],
     [href |-> Href("linkedin", 124, ""), title |-> <<"S", "e", "n", "i", "o", "r", " ", "S", "o", "f", "t", "w", "a", "r", "e", " ", "E", "n", "g", "i", "n", "e", "e", "r">>],
     [href |-> Href("linkedin", 2, ""), title |-> Product_Manager],
     [href |-> Href("board", 0, ""), title |-> Product_Manager]}
Passes == {"merge", "addOnly"}

\* The checks every pass makes before it looks at jobById.
Admitted(item) ==
    /\ getJobViewUrl(item.href) # NoUrl
    /\ getJobId(getJobViewUrl(item.href)) # 0
    /\ getJobId(getJobViewUrl(item.href)) \notin getExistingJobIds(digests[today])
    /\ ~isJobsSimilarLink(item.title)
    /\ ~isNonPmRole(normalizeTitle(item.title))

Put(map, id, rec) == [i \in DOMAIN map \cup {id} |-> IF i = id THEN rec ELSE map[i]]

\* One link in the passes of lines 261-286 and 301-316: a new posting is
\* added, a known one gets the title if it is real and the known one is
\* the placeholder or shorter.
mergeItem(map, item) ==
    LET viewUrl == getJobViewUrl(item.href)
        id == getJobId(viewUrl)
        normalizedTitle == normalizeTitle(item.title)
    IN IF ~Admitted(item) THEN map
       ELSE IF id \notin DOMAIN map THEN Put(map, id, [viewUrl |-> viewUrl, title |-> normalizedTitle])
       ELSE IF normalizedTitle # View_job
               /\ (map[id].title = View_job \/ Len(normalizedTitle) > Len(map[id].title))
            THEN Put(map, id, [viewUrl |-> map[id].viewUrl, title |-> normalizedTitle])
       ELSE map

\* One link in the passes of lines 451-463 and 566-578: only a posting not
\* yet collected is added.
addOnlyItem(map, item) ==
    LET viewUrl == getJobViewUrl(item.href)
        id == getJobId(viewUrl)
    IN IF Admitted(item) /\ id \notin DOMAIN map
       THEN Put(map, id, [viewUrl |-> viewUrl, title |-> normalizeTitle(item.title)])
       ELSE map

\* runScrape begins: jobById = new Map()
ScrapeStart ==
    /\ collected # <<>>
    /\ jobById' = <<>>
    /\ collected' = <<>>
    /\ UNCHANGED <<pipeline, parked, intake, applications>>

ScrapeMergeItem(item) ==
    /\ Len(collected) < MaxItems
    /\ jobById' = mergeItem(jobById, item)
    /\ collected' = Append(collected, [item |-> item, pass |-> "merge"])
    /\ UNCHANGED <<pipeline, parked, intake, applications>>

ScrapeAddOnlyItem(item) ==
    /\ Len(collected) < MaxItems
    /\ jobById' = addOnlyItem(jobById, item)
    /\ collected' = Append(collected, [item |-> item, pass |-> "addOnly"])
    /\ UNCHANGED <<pipeline, parked, intake, applications>>

\* Lines 585-609: the bullets written for the collected postings.
newBullets(map) ==
    LET ids == Ascending(DOMAIN map \ getExistingJobIds(digests[today]))
        text(t) == [i \in DOMAIN slice(t, 0, BULLET_TITLE_CAP) |-> IF t[i] = "|" THEN " " ELSE t[i]]
    IN [k \in DOMAIN ids |->
           JobLine(" ", Label(text(map[ids[k]].title), "-", "Remote", ~Contains(map[ids[k]].title, <<"]">>)),
                   map[ids[k]].viewUrl)]

NextScrape ==
    \/ ScrapeStart
    \/ \E item \in RawItems : ScrapeMergeItem(item)
    \/ \E item \in RawItems : ScrapeAddOnlyItem(item)

SpecScrape == Init /\ [][NextScrape]_vars

\* ------------------------------------------- admission within one run
\* parse-linkedin-job-emails main() 450-463, fetch-remote-pm-rss main()
\* 370-377 and fetch-gaming-pm-jobs main() 133-139: a raw record is
\* [url, title, fits]; fits says that the script's keyword filters accept
\* it (isRelevant and not isExcluded; isProductRole; matchesGaming).
\* The links of alert emails: a posting under two tracking queries, and the
\* "see all jobs" search link under two.
EmailLinks ==
    {[url |-> Href("linkedin", 1, ""), title |-> Product_Manager, company |-> "Acme", fits |-> TRUE],
     [url |-> Href("linkedin", 1, "?trk=a"), title |-> Senior_Product_Manager, company |-> "", fits |-> TRUE],
     [url |-> Href("linkedin", 1, "?trk=b"), title |-> Product_Manager, company |-> "Apex", fits |-> TRUE]}
    \cup {[url |-> Href("search", 5, q), title |-> Product_Manager, company |-> "", fits |-> TRUE] : q \in {"", "?trk=a"}}
    \cup {[url |-> Href("linkedin", 4, ""), title |-> Senior_Product_Manager, company |-> "", fits |-> FALSE],
          [url |-> Href("linkedin", 6, ""), title |-> <<"Q", "A", " ", "E", "n", "g", "i", "n", "e", "e", "r">>,
           company |-> "", fits |-> TRUE]}
\* The items of the feeds: a posting's link with and without the feed's
\* query, an item without a link, an item of another profession.
FeedItems ==
    {[url |-> Href("board", 7, q), title |-> Product_Manager, company |-> "", fits |-> TRUE] : q \in {"", "?utm=rss"}}
    \cup {[url |-> NoUrl, title |-> Product_Manager, company |-> "", fits |-> TRUE],
          [url |-> Href("board", 8, ""), title |-> Product_Manager, company |-> "", fits |-> FALSE],
          [url |-> Href("board", 9, ""), title |-> Product_Manager, company |-> "", fits |-> TRUE]}
\* No record read yet.
NoRecord == [url |-> NoUrl, title |-> <<>>, company |-> "", fits |-> FALSE]

\* main() begins: empty seen sets; the gaming script first reads the links
\* marked in its previous digests.
IntakeStart(src, excl) ==
    /\ intake.source # src \/ intake.read > 0
    /\ src = "gaming" \/ excl = {}
    /\ intake' = [source |-> src, seenJobIds |-> {}, seenUrls |-> {}, excludedUrls |-> excl,
                  results |-> <<>>, read |-> 0, last |-> NoRecord]
    /\ UNCHANGED <<pipeline, parked, jobById, collected, applications>>

\* Lines 450-463 of the email parser, for one extracted link.
EmailAdmit(job) ==
    /\ intake.source = "email"
    /\ intake.read < MaxRaw
    /\ LET jobId == getJobId(job.url)
           skip == \/ ~job.fits
                   \/ isNonPmRole(job.title)
                   \/ (jobId # 0 /\ jobId \in intake.seenJobIds)
                   \/ (jobId = 0 /\ job.url \in intake.seenUrls)
       IN intake' = IF skip THEN [intake EXCEPT !.read = @ + 1, !.last = job]
                    ELSE [intake EXCEPT !.read = @ + 1, !.last = job,
                                        !.seenJobIds = IF jobId # 0 THEN @ \cup {jobId} ELSE @,
                                        !.seenUrls = @ \cup {job.url},
                                        !.results = Append(@, job)]
    /\ UNCHANGED <<pipeline, parked, jobById, collected, applications>>

\* Lines 450-463 of the email parser as a loop over the extracted links in
\* the order of `links`: the records it keeps, given those it has kept.
RECURSIVE emailDedupe(_, _)
emailDedupe(links, kept) ==
    IF links = <<>> THEN kept
    ELSE LET job == Head(links)
             jobId == getJobId(job.url)
             seenJobIds == {getJobId(kept[k].url) : k \in DOMAIN kept} \ {0}
             seenUrls == {kept[k].url : k \in DOMAIN kept}
             skip == \/ ~job.fits
                     \/ isNonPmRole(job.title)
                     \/ (jobId # 0 /\ jobId \in seenJobIds)
                     \/ (jobId = 0 /\ job.url \in seenUrls)
         IN emailDedupe(Tail(links), IF skip THEN kept ELSE Append(kept, job))

\* Lines 370-377 of the RSS fetch, for one item of a feed.
RssAdmit(item) ==
    /\ intake.source = "rss"
    /\ intake.read < MaxRaw
    /\ LET skip == item.url = NoUrl \/ item.url \in intake.seenUrls \/ ~item.fits
       IN intake' = IF skip THEN [intake EXCEPT !.read = @ + 1, !.last = item]
                    ELSE [intake EXCEPT !.read = @ + 1, !.last = item,
                                        !.seenUrls = @ \cup {item.url},
                                        !.results = Append(@, item)]
    /\ UNCHANGED <<pipeline, parked, jobById, collected, applications>>

\* Lines 133-139 of the gaming fetch, for one item of a feed.
GamingAdmit(item) ==
    /\ intake.source = "gaming"
    /\ intake.read < MaxRaw
    /\ LET take == item.fits /\ item.url \notin intake.seenUrls /\ item.url \notin intake.excludedUrls
       IN intake' = IF take THEN [intake EXCEPT !.read = @ + 1, !.last = item,
                                                !.seenUrls = @ \cup {item.url},
                                                !.results = Append(@, item)]
                    ELSE [intake EXCEPT !.read = @ + 1, !.last = item]
    /\ UNCHANGED <<pipeline, parked, jobById, collected, applications>>

\* The entries the script writes for its results: the email parser keeps
\* only the links to a posting (line 478), the feeds write every result.
written(in) ==
    IF in.source = "email"
    THEN KeepFrom(in.results, {i \in DOMAIN in.results : in.results[i].url.site = "linkedin"}, 1)
    ELSE in.results

NextIntake ==
    \/ \E src \in {"email", "rss", "gaming"}, excl \in {{}, {Href("board", 9, "")}} : IntakeStart(src, excl)
    \/ \E job \in EmailLinks : EmailAdmit(job)
    \/ \E item \in FeedItems : RssAdmit(item)
    \/ \E item \in FeedItems : GamingAdmit(item)

SpecIntake == Init /\ [][NextIntake]_vars

\* ------------------------------------------------- track-application.js
\* applications-tracker.json is the sequence `applications`.  A date is a
\* day number (the scripts use YYYY-MM-DD strings, which new Date() reads
\* as UTC midnights), 0 stands for null; response_days is <<>> for null
\* and <<n>> for n.
STATUSES == {"applied", "responded", "interview", "offer", "rejected", "withdrawn"}
Acme == <<"A", "c", "m", "e">>
acme_ == <<"a", "c", "m", "e", " ">>
Initech == <<"I", "n", "i", "t", "e", "c", "h">>

\* What the ingestion paths pass to addApplication: the folder scan knows
\* the company only, a digest mark knows the posting.
AddInputs ==
    {[date_applied |-> 1, role |-> "Unknown Role", company |-> Acme, source |-> "company_site",
      url |-> "", jobId |-> 0, location |-> "", notes |-> ""],
     [date_applied |-> 3, role |-> "Product Manager", company |-> acme_, source |-> "linkedin",
      url |-> "https://www.linkedin.com/jobs/view/2", jobId |-> 2, location |-> "Remote", notes |-> "n"],
     [date_applied |-> 31, role |-> "Senior Product Manager", company |-> Acme, source |-> "company_site",
      url |-> "", jobId |-> 0, location |-> "", notes |-> ""],
     [date_applied |-> 1, role |-> "Product Manager", company |-> Initech, source |-> "linkedin",
      url |-> "https://www.linkedin.com/jobs/view/2", jobId |-> 2, location |-> "", notes |-> ""]}

AppIds(apps) == {apps[i].id : i \in DOMAIN apps}
find(apps, id) == apps[CHOOSE i \in DOMAIN apps : apps[i].id = id]

RECURSIVE TotalHistory(_)
TotalHistory(apps) == IF apps = <<>> THEN 0 ELSE Len(Head(apps).status_history) + TotalHistory(Tail(apps))

\* addApplication, lines 75-124; generateId yields an id no record has.
addApplication(data) ==
    /\ Len(applications) < MaxApps
    /\ LET id == CHOOSE n \in 1..MaxApps : n \notin AppIds(applications)
       IN applications' = Append(applications,
              [id |-> id, date_applied |-> data.date_applied, role |-> data.role,
               company |-> data.company, source |-> data.source, url |-> data.url,
               jobId |-> data.jobId, location |-> data.location, status |-> "applied",
               status_history |-> <<[status |-> "applied", date |-> data.date_applied]>>,
               response_date |-> 0, response_days |-> <<>>, interview_dates |-> <<>>,
               offer_date |-> 0, rejection_date |-> 0, notes |-> data.notes,
               feedback_type |-> "null", feedback_text |-> "null",
               has_cover_letter |-> FALSE, resume_sent |-> FALSE])
    /\ UNCHANGED <<pipeline, parked, jobById, collected, intake>>

\* Lines 149-154.
setResponse_Always(app, newStatus, updateDate) ==
    IF newStatus = "responded"
    THEN [app EXCEPT !.response_date = updateDate, !.response_days = <<updateDate - app.date_applied>>]
    ELSE app

setResponse(app, newStatus, updateDate) ==
    IF newStatus = "responded" /\ app.response_date = 0
    THEN [app EXCEPT !.response_date = updateDate, !.response_days = <<updateDate - app.date_applied>>]
    ELSE app

\* Lines 156-160.
addInterview_Always(app, newStatus, updateDate) ==
    IF newStatus = "interview"
    THEN [app EXCEPT !.interview_dates = Append(@, updateDate)]
    ELSE app

addInterview(app, newStatus, updateDate) ==
    IF newStatus = "interview" /\ ~(\E k \in DOMAIN app.interview_dates : app.interview_dates[k] = updateDate)
    THEN [app EXCEPT !.interview_dates = Append(@, updateDate)]
    ELSE app

\* Lines 162-168.
setOutcome(app, newStatus, updateDate) ==
    IF newStatus = "offer" THEN [app EXCEPT !.offer_date = updateDate]
    ELSE IF newStatus = "rejected" THEN [app EXCEPT !.rejection_date = updateDate]
    ELSE app

\* Lines 141-146.
pushStatus_Rewrite(app, newStatus, updateDate) ==
    [app EXCEPT !.status = newStatus,
                !.status_history = <<[status |-> newStatus, date |-> updateDate]>>]

pushStatus(app, newStatus, updateDate) ==
    [app EXCEPT !.status = newStatus,
                !.status_history = Append(@, [status |-> newStatus, date |-> updateDate])]

\* Variant: the update is applied to every record of the tracker.
updateStatusCall_All(apps, applicationId, newStatus, updateDate) ==
    [returned |-> IF applicationId \in AppIds(apps) THEN "app" ELSE "null",
     applications |-> [i \in DOMAIN apps |->
         setOutcome(addInterview(setResponse(pushStatus(apps[i], newStatus, updateDate), newStatus, updateDate),
                                 newStatus, updateDate), newStatus, updateDate)]]

\* Variant: an unknown id falls back on the first record of the tracker.
updateStatusCall_First(apps, applicationId, newStatus, updateDate) ==
    LET target == IF applicationId \in AppIds(apps) \/ apps = <<>> THEN applicationId ELSE apps[1].id
    IN [returned |-> IF target \in AppIds(apps) THEN "app" ELSE "null",
        applications |-> [i \in DOMAIN apps |->
            IF apps[i].id = target
            THEN setOutcome(addInterview(setResponse(pushStatus(apps[i], newStatus, updateDate),
                                                     newStatus, updateDate),
                                         newStatus, updateDate), newStatus, updateDate)
            ELSE apps[i]]]

\* updateStatus, lines 129-177, called with a date and without notes: what
\* it returns (the record, or null for an unknown id, lines 133-136) and
\* the tracker it leaves on disk.
updateStatusCall(apps, applicationId, newStatus, updateDate) ==
    IF applicationId \notin AppIds(apps)
    THEN [returned |-> "null", applications |-> apps]
    ELSE LET app == find(apps, applicationId)
             moved == pushStatus(app, newStatus, updateDate)
             updated == setOutcome(addInterview(setResponse(moved, newStatus, updateDate),
                                                newStatus, updateDate), newStatus, updateDate)
         IN [returned |-> "app",
             applications |-> [i \in DOMAIN apps |->
                                  IF apps[i].id = applicationId THEN updated ELSE apps[i]]]

updateStatus(applicationId, newStatus, updateDate) ==
    /\ TotalHistory(applications) - Len(applications) < MaxUpdates
    /\ applications' = updateStatusCall(applications, applicationId, newStatus, updateDate).applications
    /\ UNCHANGED <<pipeline, parked, jobById, collected, intake>>

\* FEEDBACK_TYPES, lines 41-47
FEEDBACK_TYPES ==
    {"auto_rejection", "generic_rejection", "personalized_rejection", "positive_feedback", "no_response"}

\* addFeedback, lines 182-197: what it returns and the tracker it leaves.
addFeedbackCall(apps, applicationId, feedbackType, feedbackText) ==
    IF applicationId \notin AppIds(apps)
    THEN [returned |-> "null", applications |-> apps]
    ELSE [returned |-> "app",
          applications |-> [i \in DOMAIN apps |->
              IF apps[i].id = applicationId
              THEN [apps[i] EXCEPT !.feedback_type = feedbackType, !.feedback_text = feedbackText]
              ELSE apps[i]]]

addFeedback(applicationId, feedbackType, feedbackText) ==
    /\ applications' = addFeedbackCall(applications, applicationId, feedbackType, feedbackText).applications
    /\ UNCHANGED <<pipeline, parked, jobById, collected, intake>>

\* --------------------------------------------- deduplicate-applications.js
companyKey(app) == trim(toLowerCase(app.company))

\* statusOrder[a] > statusOrder[b]; a status the table lacks compares false
statusOrder == [st \in {"applied", "responded", "interview", "offer", "rejected"} |->
                   CASE st = "applied" -> 0 [] st = "responded" -> 1 [] st = "interview" -> 2
                     [] st = "offer" -> 3 [] st = "rejected" -> 4]
moreAdvanced(a, b) == a \in DOMAIN statusOrder /\ b \in DOMAIN statusOrder /\ statusOrder[a] > statusOrder[b]

\* Variant: the other record's history is put before main's.
mergeStatus_OtherFirst(main, other) ==
    IF moreAdvanced(other.status, main.status)
    THEN [main EXCEPT !.status = other.status,
                      !.status_history = other.status_history \o main.status_history]
    ELSE main

\* Lines 87-92.
mergeStatus(main, other) ==
    IF moreAdvanced(other.status, main.status)
    THEN [main EXCEPT !.status = other.status,
                      !.status_history = main.status_history \o other.status_history]
    ELSE main

mergeOther_KeepMain(main, other) == main

\* Lines 66-97: what `main` takes from one other record of its company.
\* Notes are "" or one note, so includes() is equality or emptiness.
mergeOther(main, other) ==
    LET m1 == IF other.jobId # 0 /\ main.jobId = 0 THEN [main EXCEPT !.jobId = other.jobId] ELSE main
        m2 == IF other.url # "" /\ m1.url = "" THEN [m1 EXCEPT !.url = other.url] ELSE m1
        m3 == IF other.role # "" /\ other.role # "Unknown Role"
                 /\ (m2.role = "Unknown Role" \/ Len(m2.role) < Len(other.role))
              THEN [m2 EXCEPT !.role = other.role] ELSE m2
        m4 == IF other.location # "" /\ m3.location = "" THEN [m3 EXCEPT !.location = other.location] ELSE m3
        m5 == mergeStatus(m4, other)
    IN IF other.notes # "" /\ m5.notes # other.notes THEN [m5 EXCEPT !.notes = other.notes] ELSE m5

RECURSIVE mergeAll(_, _)
mergeAll(main, rest) == IF rest = <<>> THEN main ELSE mergeAll(mergeOther(main, Head(rest)), Tail(rest))

\* Lines 55-59: the records of the folder scan (company_site) first, the
\* others after them, each kind in its order (the sort is stable).
sortGroup(apps, idx) ==
    KeepFrom(apps, {i \in idx : apps[i].source = "company_site"}, 1)
    \o KeepFrom(apps, {i \in idx : apps[i].source # "company_site"}, 1)

\* Variant: the merged records are written back and no record is removed.
deduplicated_KeepAll(apps) ==
    LET group(key) == {i \in DOMAIN apps : companyKey(apps[i]) = key}
        duplicates == {key \in {companyKey(apps[i]) : i \in DOMAIN apps} : Cardinality(group(key)) > 1}
        main(key) == sortGroup(apps, group(key))[1]
        merged(key) == mergeAll(main(key), Tail(sortGroup(apps, group(key))))
    IN [i \in DOMAIN apps |->
           IF companyKey(apps[i]) \in duplicates /\ apps[i].id = main(companyKey(apps[i])).id
           THEN merged(companyKey(apps[i])) ELSE apps[i]]

\* Lines 26-119: the tracker's records after the merge of each company's
\* group into its first record.
deduplicated(apps) ==
    LET group(key) == {i \in DOMAIN apps : companyKey(apps[i]) = key}
        duplicates == {key \in {companyKey(apps[i]) : i \in DOMAIN apps} : Cardinality(group(key)) > 1}
        main(key) == sortGroup(apps, group(key))[1]
        merged(key) == mergeAll(main(key), Tail(sortGroup(apps, group(key))))
        toRemove == {apps[i].id : i \in {i \in DOMAIN apps :
                        companyKey(apps[i]) \in duplicates /\ apps[i].id # main(companyKey(apps[i])).id}}
        kept == KeepFrom(apps, {i \in DOMAIN apps : apps[i].id \notin toRemove}, 1)
    IN [i \in DOMAIN kept |->
           IF companyKey(kept[i]) \in duplicates THEN merged(companyKey(kept[i])) ELSE kept[i]]

\* deduplicateApplications, lines 20-125
deduplicateApplications ==
    /\ applications' = deduplicated(applications)
    /\ UNCHANGED <<pipeline, parked, jobById, collected, intake>>

\* getStats, lines 213-214: the ids of the records each rate counts.
responded(apps) == {apps[i].id : i \in {k \in DOMAIN apps : apps[k].response_date # 0}}

interviews(apps) ==
    {apps[i].id : i \in {k \in DOMAIN apps : apps[k].status = "interview" \/ Len(apps[k].interview_dates) > 0}}

\* The tracker's commands on their own.
NextTracker ==
    \/ \E data \in AddInputs : addApplication(data)
    \/ \E id \in 1..MaxApps, st \in STATUSES, date \in {2, MaxDate} : updateStatus(id, st, date)

SpecTracker == Init /\ [][NextTracker]_vars

\* The tracker with the deduplication run now and then, a few status
\* changes in between.
NextDedupe ==
    \/ \E data \in AddInputs : addApplication(data)
    \/ \E id \in 1..MaxApps, st \in STATUSES \ {"applied"} :
          /\ TotalHistory(applications) - Len(applications) < MaxMergeUpdates
          /\ updateStatus(id, st, MaxDate)
    \/ deduplicateApplications

SpecDedupe == Init /\ [][NextDedupe]_vars

\* Transitions and annotations, as the CLI (`status`, `feedback`) and the
\* automatic tracking of replies make them.
NextFeedback ==
    \/ \E data \in AddInputs : addApplication(data)
    \/ \E id \in 1..MaxApps, st \in {"interview", "rejected"} : updateStatus(id, st, MaxDate)
    \/ \E id \in 1..MaxApps, type \in {"auto_rejection", "positive_feedback"} : addFeedback(id, type, "")

SpecFeedback == Init /\ [][NextFeedback]_vars

\* ------------------------------------------------- track-applied-folder
\* scanAppliedFolder, lines 81-145: one record per company folder of
\* Applied/ that holds a CV; the date is the CV file's mtime.
FolderEntries ==
    {[company |-> Acme, role |-> "Unknown Role", date_applied |-> d, has_cover_letter |-> c] :
         d \in {3, 5}, c \in BOOLEAN}
    \cup {[company |-> Initech, role |-> "Product Manager", date_applied |-> 9, has_cover_letter |-> FALSE]}

\* The folders in readdir order: no two of one name.
Folders ==
    {<<e>> : e \in FolderEntries}
    \cup {<<e, f>> : e \in {x \in FolderEntries : x.company = Acme},
                     f \in {x \in FolderEntries : x.company = Initech}}

\* Lines 175-186.
companyMatch(a, app) ==
    \/ toLowerCase(a.company) = toLowerCase(app.company)
    \/ Contains(toLowerCase(a.company), toLowerCase(app.company))
    \/ Contains(toLowerCase(app.company), toLowerCase(a.company))

daysDiff(a, app) ==
    IF app.date_applied >= a.date_applied THEN app.date_applied - a.date_applied
    ELSE a.date_applied - app.date_applied

\* Variant: only a record of the very same day is the existing one.
existing_SameDay(apps, app) ==
    LET hits == {k \in DOMAIN apps : companyMatch(apps[k], app) /\ daysDiff(apps[k], app) = 0}
    IN IF hits = {} THEN 0 ELSE CHOOSE k \in hits : \A j \in hits : k <= j

\* Lines 174-187: tracker.applications.find(...), 0 when nothing is found.
existing(apps, app) ==
    LET hits == {k \in DOMAIN apps : companyMatch(apps[k], app) /\ daysDiff(apps[k], app) <= 2}
    IN IF hits = {} THEN 0 ELSE CHOOSE k \in hits : \A j \in hits : k <= j

\* Lines 163-168: the companies of the records that came from digests.
digestCompanies(apps) ==
    {companyKey(apps[k]) :
        k \in {j \in DOMAIN apps : apps[j].source \in {"linkedin", "linkedin_email", "linkedin_rss"}}}
    \ {<<>>, <<"u", "n", "k", "n", "o", "w", "n">>}

\* Lines 190-195.
inDigest(companies, app) ==
    \E dc \in companies :
        \/ dc = trim(toLowerCase(app.company))
        \/ Contains(dc, trim(toLowerCase(app.company)))
        \/ Contains(trim(toLowerCase(app.company)), dc)

\* Lines 171-260, the loop body for one folder: the existing record is
\* annotated, a company known from a digest is skipped, else a record is
\* pushed (its notes say whether a cover letter went with the resume).
syncOne(apps, companies, app) ==
    LET k == existing(apps, app)
    IN IF k # 0
       THEN [apps EXCEPT ![k].has_cover_letter = @ \/ app.has_cover_letter, ![k].resume_sent = TRUE]
       ELSE IF inDigest(companies, app) THEN apps
       ELSE Append(apps,
              [id |-> CHOOSE n \in 1..(MaxApps + MaxFolders) : n \notin AppIds(apps),
               date_applied |-> app.date_applied, role |-> app.role,
               company |-> app.company, source |-> "company_site", url |-> "",
               jobId |-> 0, location |-> "", status |-> "applied",
               status_history |-> <<[status |-> "applied", date |-> app.date_applied]>>,
               response_date |-> 0, response_days |-> <<>>, interview_dates |-> <<>>,
               offer_date |-> 0, rejection_date |-> 0,
               notes |-> IF app.has_cover_letter THEN "Resume sent. With cover letter." ELSE "Resume sent. ",
               feedback_type |-> "null", feedback_text |-> "null",
               has_cover_letter |-> app.has_cover_letter, resume_sent |-> TRUE])

RECURSIVE syncAll(_, _, _)
syncAll(apps, companies, folder) ==
    IF folder = <<>> THEN apps
    ELSE syncAll(syncOne(apps, companies, Head(folder)), companies, Tail(folder))

\* syncAppliedFolder, lines 150-274, with the folders `folder` on disk.
syncAppliedFolder(folder) ==
    /\ Len(syncAll(applications, digestCompanies(applications), folder)) <= MaxApps
    /\ applications' = syncAll(applications, digestCompanies(applications), folder)
    /\ UNCHANGED <<pipeline, parked, jobById, collected, intake>>

NextFolder ==
    \/ \E data \in AddInputs : addApplication(data)
    \/ \E folder \in Folders : syncAppliedFolder(folder)

SpecFolder == Init /\ [][NextFolder]_vars

\* ------------------------------------------------------ two invocations
\* Two invocations of the filter on today's digest (the scheduled run and a
\* manual one) are two processes, each with its own lines, stateResults and
\* loop position. `run` is the one taking the next step; the operating
\* system switching to the other one exchanges the two.
Switch ==
    /\ run' = parked
    /\ parked' = run
    /\ run # parked
    /\ UNCHANGED <<digests, store, today, resolved, applied, jobById, collected, intake, applications>>

\* The pages answer with a login wall, a closed posting or a remote one.
NextTwoRuns ==
    \/ \E batch \in 1..MaxBatch : StartRun(today, TRUE, batch) /\ UNCHANGED others
    \/ \E resp \in {"authwall", "closed", "remote"} : Navigate(resp) /\ UNCHANGED others
    \/ HandleAuthwall /\ UNCHANGED others
    \/ HandleRemove /\ UNCHANGED others
    \/ HandleKeep /\ UNCHANGED others
    \/ LoopEnd /\ UNCHANGED others
    \/ WriteDigest /\ UNCHANGED others
    \/ SaveState /\ UNCHANGED others
    \/ Switch

SpecTwoRuns == Init /\ [][NextTwoRuns]_vars

\* ------------------------------------------------- the batch-limit report
\* Lines 391-397: what a run that stops at its batch limit prints.
\* remainingCount = totalJobs - Object.keys(stateResults).length, where
\* totalJobs is jobLineIndices.length; the "N remaining" sentence is printed
\* only when remainingCount > 0.
remainingCount(r) == Cardinality(jobLineIndices(r.lines)) - Cardinality(DOMAIN r.results)

\* Batch-limited enrichment of today's digest, with or without the RSS
\* block merged into it.
NextBatch ==
    \/ RssMerge(1..MaxRss) /\ UNCHANGED others
    \/ \E batch \in 1..MaxBatch : StartRun(today, TRUE, batch) /\ UNCHANGED others
    \/ RunStep

SpecBatch == Init /\ [][NextBatch]_vars

\* ------------------------------------------------------- the reconcilers
\* The operations that rewrite a day's digest in place (search-scrape
\* insertion, the export filter, apply-filter-state, the enrichment filter
\* with nothing pending), on whatever file the day's producers have left:
\* the email parser's digest of the first day, or the one the RSS step
\* starts from on a day the mail step has not written a file.
NextReconcile ==
    \/ NextDay /\ UNCHANGED others
    \/ RssMerge(1..MaxRss) /\ UNCHANGED others
    \/ Len(digests[today]) < MaxLines /\ ScrapeInsert(today, SearchIds) /\ UNCHANGED others
    \/ \E x \in ExportFiles : ExportWrite(today, x) /\ UNCHANGED others
    \/ ExportSave /\ UNCHANGED others
    \/ ApplyFilterState(today) /\ UNCHANGED others
    \/ StartRunAllDone(today) /\ UNCHANGED others

SpecReconcile == Init /\ [][NextReconcile]_vars

\* ================================================================ claims
\* Job entries of a digest, as a reader sees them: every checkbox bullet.
Entries(lines) == {i \in 1..Len(lines) : IsBullet(lines[i])}
Urls(lines) == {lines[i].url : i \in Entries(lines)}

\* C1: an identity the user has marked applied [x] or rejected [-] in some
\* digest is never put into a digest by a later producer step (email parse,
\* RSS merge, search-scrape insertion, regeneration of today's file).
C1_NoResurrection ==
    [][\A d \in Days : \A u \in resolved :
          u \notin Urls(digests[d]) => u \notin Urls(digests'[d])]_vars
\* ---------------------------------------------------------------- C2
\* Results runFilter holds in memory that the store does not have yet.
Unsaved == DOMAIN run.results \ DOMAIN store[run.day]
InFilterRun == run.pc \in {"loop", "page", "write", "save"}
\* The number of processed items after which runFilter saves.
SaveEvery == IF run.limited THEN run.batch ELSE DEFAULT_BATCH_SIZE

C4_DoneStaysDone ==
    [][/\ \A d \in Days : DOMAIN store[d] \subseteq DOMAIN store'[d]
       /\ (run.pc = "idle" /\ ~filterStepNeeded(today)) => run'.pc \notin {"loop", "page"}
       /\ (run'.pc = "page" /\ run.pc # "page") =>
              getJobId(run'.lines[run'.k].url) \notin DOMAIN store[run'.day]]_vars

\* A later invocation passed over a line whose identity has a record and
\* fetched one further down.
C4_Witness ==
    /\ run.pc = "page"
    /\ \E i \in jobLineIndices(run.lines) :
          i < run.k /\ getJobId(run.lines[i].url) \in DOMAIN store[run.day]

\* ---------------------------------------------------------------- C5
\* C5: with LinkedIn reachable and no new identities, the pending set of
\* the digest never grows from one step to the next, and after finitely
\* many invocations it is empty for good.
C5_PendingShrinksToEmpty ==
    /\ [][Pending(today)' \subseteq Pending(today)]_vars
    /\ <>[](Pending(today) = {})

\* Batch-limited invocations have emptied the pending set.
C5_Witness ==
    /\ run.pc = "idle"
    /\ Pending(today) = {}
    /\ Cardinality(DOMAIN store[today]) = NumJobs

\* ---------------------------------------------------------------- C6
\* C6: an enrichment invocation that finds nothing pending fetches nothing
\* and leaves the digest exactly as it was.
C6_SecondRunNoOp ==
    [][(run.pc = "idle" /\ Pending(today) = {}) =>
          (run'.pc = "idle" /\ digests' = digests)]_vars

\* ---------------------------------------------------------------- C7
\* C7: a login / authwall page or a navigation error writes no record: the
\* results of the run are the same after the handler, and the identity is
\* pending in the files the run leaves behind, whenever it stops.
C7_UnreachableLeavesPending ==
    [][/\ (run.pc = "page" /\ run.resp \in Unreachable /\ ~Kill) => run'.results = run.results
       /\ InFilterRun =>
              run.skipped \subseteq PendingIn(digests'[run.day], store'[run.day])
       /\ (run.pc = "page" /\ run.resp \notin Unreachable /\ ~Kill) =>
              getJobId(run.lines[run.k].url) \in DOMAIN run'.results]_vars

\* A run that met an unreachable page has ended and saved, and the
\* identity is pending.
C7_Witness ==
    /\ run.pc = "save"
    /\ run.ret
    /\ run.skipped # {}
    /\ run.results # Empty

\* ---------------------------------------------------------------- C8
\* C8 as stated: once an identity was unreachable, the run fetches no
\* further identity.
C8_AbortsBatch ==
    run.pc = "page" => run.skipped = {}

\* C8: an unreachable page makes runFilter skip that identity only: the
\* loop goes on with the next line, and the identities further down are
\* still fetched in the same run.
C8_SkipsAndContinues ==
    [][(run.pc = "page" /\ run.resp \in Unreachable /\ ~Kill) =>
          /\ run'.pc = "loop"
          /\ run'.k = run.k + 1
          /\ {i \in remaining(run'.lines, run'.results) : i >= run'.k}
                 = {i \in remaining(run.lines, run.results) : i > run.k}]_vars

\* A fetch begins after an earlier identity of the run was unreachable.
C8_Witness ==
    /\ run.pc = "page"
    /\ run.skipped # {}

\* ---------------------------------------------------------------- C9
IsH2(line) == line \in {BestHeader, OtherHeader, RssHeader}

\* Entries of the body section under the heading `header`: the bullets
\* between that heading and the next heading of the same level.
SectionEntries(lines, header) ==
    {i \in Entries(lines) :
        \E h \in 1..(i - 1) :
            /\ lines[h] = header
            /\ \A j \in (h + 1)..(i - 1) : ~IsH2(lines[j])}

\* C9: in every digest that has a header count line, the Best and Other
\* numbers equal the number of entries under the two headings.
C9_HeaderMatchesBody ==
    \A d \in Days : \A c \in 1..Len(digests[d]) :
        digests[d][c].kind = "count" =>
            /\ digests[d][c].best = Cardinality(SectionEntries(digests[d], BestHeader))
            /\ digests[d][c].other = Cardinality(SectionEntries(digests[d], OtherHeader))

\* ---------------------------------------------------------------- C10
\* C10: a step of the pipeline (anything but the user ticking a box) leaves
\* every entry that stays in the digest with the marker it had, and keeps
\* the entries in their order.
C10_MarkerAndPositionKept ==
    [][(\E i \in DOMAIN digests[today] : UserMark(today, i, "x"))
       \/ \A d \in Days :
             \A i, j \in Entries(digests[d]) : \A i2, j2 \in Entries(digests'[d]) :
                 (digests'[d][i2].url = digests[d][i].url
                    /\ digests'[d][j2].url = digests[d][j].url) =>
                      /\ digests'[d][i2].mark = digests[d][i].mark
                      /\ (i < j) = (i2 < j2)]_vars
\* ---------------------------------------------------------------- C11
\* `new` is `old` without the entries R and without the blank lines B, with
\* nothing else dropped, added or reordered; a line that is neither an
\* entry nor the header count is carried over as it is, an entry stays the
\* entry of its url, a count line stays a count line.
FrameKept(old, new, R, B) ==
    LET kept == (1..Len(old)) \ (R \cup B)
        pos(i) == Cardinality({j \in kept : j <= i})
    IN /\ Len(new) = Cardinality(kept)
       /\ \A i \in kept :
             CASE old[i].kind = "job" ->
                     new[pos(i)].kind = "job" /\ new[pos(i)].url = old[i].url
               [] old[i].kind = "count" -> new[pos(i)].kind = "count"
               [] OTHER -> new[pos(i)] = old[i]

\* C11: a step that applies checkpoint state to a digest (any write of an
\* existing digest that is not the user's tick) drops only entries and, for
\* each dropped entry, at most the one blank line right after it; every
\* other line except rewritten entries and the header count line is written
\* back unchanged, in the same order.
C11_OnlyTouchedLinesChange ==
    [][\A d \in Days :
          (digests'[d] # digests[d] /\ digests[d] # <<>>) =>
              \E R \in SUBSET Entries(digests[d]) :
                  \E B \in SUBSET {i + 1 : i \in {r \in R : r + 1 <= Len(digests[d])
                                                           /\ digests[d][r + 1] = Blank}} :
                      FrameKept(digests[d], digests'[d], R, B)]_vars

\* A digest from which state was applied: one entry and its blank line are
\* gone, another entry is rewritten.
C11_Witness ==
    /\ run.pc = "idle"
    /\ Len(digests[today]) = Len(FirstDigest) - 2
    /\ \E id \in DOMAIN store[today] : store[today][id].remove
    /\ \E i \in Entries(digests[today]) :
          /\ HasRecord(store[today], getJobId(digests[today][i].url))
          /\ digests[today][i] = store[today][getJobId(digests[today][i].url)].newLine
          /\ digests[today][i] \notin {FirstDigest[j] : j \in 1..Len(FirstDigest)}
\* ---------------------------------------------------------------- C12
\* Empty or stand-in values of a label field.
Placeholders == {"", "-", "View job", "Unknown"}

\* C12: a step of the pipeline that rewrites an entry never puts an empty or
\* placeholder title, organization or work arrangement where the entry had
\* a real one.
C12_NoPlaceholderOverwrite ==
    [][\A d \in Days :
          \A i \in Entries(digests[d]) : \A j \in Entries(digests'[d]) :
              digests'[d][j].url = digests[d][i].url =>
                  /\ digests[d][i].label.title \notin Placeholders
                        => digests'[d][j].label.title \notin Placeholders
                  /\ digests[d][i].label.company \notin Placeholders
                        => digests'[d][j].label.company \notin Placeholders
                  /\ digests[d][i].label.type \notin Placeholders
                        => digests'[d][j].label.type \notin Placeholders]_vars

\* The records the scrape has taken in for posting id, as normalised titles.
TitlesSeen(id) ==
    {normalizeTitle(collected[k].item.title) :
        k \in {k \in DOMAIN collected : Admitted(collected[k].item)
                                        /\ getJobId(collected[k].item.href) = id}}

\* C13: when the records resolved for an identity include one with a real
\* title, the identity's title is a real one, whatever the order in which the
\* placeholder-titled and the real-titled record arrived; and a step never
\* takes a real title back to the placeholder.
C13_EitherOrderYieldsReal ==
    \A id \in DOMAIN jobById :
        (TitlesSeen(id) \ {View_job} # {}) => jobById[id].title # View_job

\* C13, second half alone: a real title is never reverted to the placeholder
\* by a later record of the same run.
C13_NeverReverted ==
    [][\A id \in DOMAIN jobById :
          (jobById[id].title # View_job /\ id \in DOMAIN jobById') => jobById'[id].title # View_job]_vars

\* The two links of the scenario: the search page yields href and link text
\* only, so the second record's organization has no field to arrive in.
Scenario123 ==
    <<[item |-> [href |-> Href("linkedin", 123, "?x=1"),
                 title |-> Senior_PM_verified \o <<" ">> \o Senior_PM_verified],
       pass |-> "merge"],
      [item |-> [href |-> Href("linkedin", 123, ""), title |-> Senior_Product_Manager],
       pass |-> "merge"]>>

\* C15: after the record titled 'Senior PM (verified) Senior PM (verified)'
\* (url .../jobs/view/123?x=1) and then the record titled 'Senior Product
\* Manager' of organization 'Acme' (url .../jobs/view/123), there is exactly
\* one posting, of identity 123, titled 'Senior Product Manager', and the
\* entry written for it names the organization 'Acme'.
C15_ScenarioResolves ==
    collected = Scenario123 =>
        /\ DOMAIN jobById = {123}
        /\ jobById[123].title = Senior_Product_Manager
        /\ Len(newBullets(jobById)) = 1
        /\ newBullets(jobById)[1].label.company = "Acme"

\* The identity of a posting: the id in its link, or else the link with
\* its query stripped.
Identity(url) == IF getJobId(url) # 0 THEN [site |-> "id", n |-> getJobId(url)] ELSE [site |-> url.site, n |-> url.n]

\* C14: within one run, the admitted postings, and the entries written from
\* them, hold at most one record per job identity.
C14_OnePerIdentity ==
    \A i, j \in DOMAIN intake.results :
        Identity(intake.results[i].url) = Identity(intake.results[j].url) => i = j

\* C14, for the written entries only.
C14_OneWrittenPerIdentity ==
    \A i, j \in DOMAIN written(intake) :
        Identity(written(intake)[i].url) = Identity(written(intake)[j].url) => i = j

\* C14, for links that carry a posting id only.
C14_OnePerJobId ==
    \A i, j \in DOMAIN intake.results :
        (getJobId(intake.results[i].url) # 0 /\ getJobId(intake.results[i].url) = getJobId(intake.results[j].url)) => i = j

\* Applications present before and after a step, and an application's
\* latest history entry.
Staying == AppIds(applications) \cap AppIds(applications')
LastEntry(app) == app.status_history[Len(app.status_history)]
Range(seq) == {seq[k] : k \in DOMAIN seq}

\* C16: response_date and response_days are set on the first transition into
\* `responded`, to that transition's date and to its whole-day distance from
\* the applied date, and once set no later transition changes either.
C16_ResponseDaysOnce ==
    [][\A id \in Staying :
          LET a == find(applications, id)
              b == find(applications', id)
          IN /\ a.response_date # 0 =>
                    (b.response_date = a.response_date /\ b.response_days = a.response_days)
             /\ (a.response_date = 0 /\ b # a) =>
                    IF LastEntry(b).status = "responded"
                    THEN /\ b.response_date = LastEntry(b).date
                         /\ b.response_days = <<LastEntry(b).date - b.date_applied>>
                    ELSE b.response_date = 0 /\ b.response_days = <<>>]_vars

\* An application answered on one day, interviewed, and answered again on
\* another day, still carrying the first answer's date and distance.
C16_Witness ==
    \E i \in DOMAIN applications :
        LET a == applications[i]
            h == a.status_history
        IN /\ Len(h) = 4
           /\ h[2].status = "responded" /\ h[3].status = "interview" /\ h[4].status = "responded"
           /\ h[4].date # h[2].date
           /\ a.response_date = h[2].date
           /\ a.response_days = <<h[2].date - a.date_applied>>

\* C17: an offer date, or a rejection date, that is set is left unchanged by
\* every later transition, a transition into the same status included.
C17_OutcomeDateFirstWriteWins ==
    [][\A id \in Staying :
          LET a == find(applications, id)
              b == find(applications', id)
          IN /\ a.offer_date # 0 => b.offer_date = a.offer_date
             /\ a.rejection_date # 0 => b.rejection_date = a.rejection_date]_vars

\* C18: interview_dates never holds a date twice; a transition to
\* `interview` appends its date if the date is absent and leaves the list
\* unchanged if it is present, and no other transition touches the list.
C18_InterviewDatesNoDuplicate ==
    [][\A id \in AppIds(applications') :
          LET b == find(applications', id)
          IN /\ \A k, l \in DOMAIN b.interview_dates :
                    b.interview_dates[k] = b.interview_dates[l] => k = l
             /\ id \in Staying =>
                    LET a == find(applications, id)
                    IN IF b.status_history # a.status_history /\ LastEntry(b).status = "interview"
                          /\ LastEntry(b).date \notin Range(a.interview_dates)
                       THEN b.interview_dates = Append(a.interview_dates, LastEntry(b).date)
                       ELSE b.interview_dates = a.interview_dates]_vars

\* An application moved to `interview` twice with the same date, the date
\* listed once.
C18_Witness ==
    \E i \in DOMAIN applications :
        LET a == applications[i]
            h == a.status_history
        IN /\ Len(h) >= 3
           /\ h[Len(h)].status = "interview" /\ h[Len(h) - 1].status = "interview"
           /\ h[Len(h)].date = h[Len(h) - 1].date
           /\ a.interview_dates = <<h[Len(h)].date>>

\* A step of deduplicateApplications that merged something.
Merging == Len(applications') < Len(applications)

\* C19: when deduplicateApplications meets two independently created
\* records of one organization, applied two days apart and sharing no job
\* identity, it leaves exactly one application of that organization, whose
\* status is the more advanced of the two: rejected or withdrawn if one of
\* them is, else the later one of applied < responded < interview < offer.
C19_OneLeftMostAdvanced ==
    [][LET Distance(x, y) == IF x >= y THEN x - y ELSE y - x
           IndependentPairs ==
               {p \in (DOMAIN applications) \X (DOMAIN applications) :
                   /\ p[1] < p[2]
                   /\ companyKey(applications[p[1]]) = companyKey(applications[p[2]])
                   /\ Cardinality({i \in DOMAIN applications :
                                      companyKey(applications[i]) = companyKey(applications[p[1]])}) = 2
                   /\ Distance(applications[p[1]].date_applied, applications[p[2]].date_applied) = 2
                   /\ ~(applications[p[1]].jobId # 0 /\ applications[p[1]].jobId = applications[p[2]].jobId)}
           Ladder == <<"applied", "responded", "interview", "offer">>
           Rung(st) == CHOOSE k \in DOMAIN Ladder : Ladder[k] = st
           MostAdvanced(x, y) ==
               IF {x, y} \cap {"rejected", "withdrawn"} # {} THEN {x, y} \cap {"rejected", "withdrawn"}
               ELSE IF Rung(x) >= Rung(y) THEN {x} ELSE {y}
       IN Merging =>
              \A p \in IndependentPairs :
                  LET left == {k \in DOMAIN applications' :
                                  companyKey(applications'[k]) = companyKey(applications[p[1]])}
                  IN /\ Cardinality(left) = 1
                     /\ \A k \in left :
                           applications'[k].status \in
                               MostAdvanced(applications[p[1]].status, applications[p[2]].status)]_vars

\* C20: after a merge the surviving record's status history holds every
\* entry of the histories of the records merged into it.
C20_HistoriesConcatenated ==
    [][Merging =>
          \A i \in DOMAIN applications :
              \E k \in DOMAIN applications' :
                  /\ companyKey(applications'[k]) = companyKey(applications[i])
                  /\ Range(applications[i].status_history) \subseteq Range(applications'[k].status_history)]_vars

\* C21: in every merge of duplicate applications the merged status is the
\* terminal one (rejected or withdrawn) if any merged record has one, and
\* else the latest of the merged records' statuses under
\* applied < responded < interview < offer.
C21_MergedStatusMostAdvanced ==
    [][LET Ladder == <<"applied", "responded", "interview", "offer">>
           Rung(st) == CHOOSE k \in DOMAIN Ladder : Ladder[k] = st
           Terminal == {"rejected", "withdrawn"}
           group(key) == {i \in DOMAIN applications : companyKey(applications[i]) = key}
           statuses(key) == {applications[i].status : i \in group(key)}
           expected(key) ==
               IF statuses(key) \cap Terminal # {} THEN statuses(key) \cap Terminal
               ELSE {st \in statuses(key) : \A other \in statuses(key) : Rung(st) >= Rung(other)}
       IN Merging =>
              \A k \in DOMAIN applications' :
                  Cardinality(group(companyKey(applications'[k]))) > 1 =>
                      applications'[k].status \in expected(companyKey(applications'[k]))]_vars

\* C22: when the record just read and an earlier record of the same posting
\* each carry the better value of a different field, the posting resolved
\* for that identity has both: a title no shorter than the one just read,
\* and an organization if the record just read names one.
C22_FieldByField ==
    (intake.source = "email" /\ intake.last.fits /\ ~isNonPmRole(intake.last.title)
        /\ getJobId(intake.last.url) # 0) =>
        \E k \in DOMAIN intake.results :
            /\ getJobId(intake.results[k].url) = getJobId(intake.last.url)
            /\ Len(intake.results[k].title) >= Len(intake.last.title)
            /\ intake.last.company # "" => intake.results[k].company # ""

\* C23: two admitted records without a posting id whose links differ only
\* in the query are one posting: the results hold one of them.
C23_QueryVariantsAreOne ==
    \A i, j \in DOMAIN intake.results :
        (/\ getJobId(intake.results[i].url) = 0
         /\ getJobId(intake.results[j].url) = 0
         /\ intake.results[i].url.site = intake.results[j].url.site
         /\ intake.results[i].url.n = intake.results[j].url.n) => i = j

\* C24: a status change of an existing application, a step back such as
\* interview to applied included, makes the status the new value and
\* appends exactly one entry to status_history, the earlier entries staying
\* as they were.
C24_AnyChangeAppendsOne ==
    [][\A id \in Staying :
          LET a == find(applications, id)
              b == find(applications', id)
          IN b # a =>
                /\ Len(b.status_history) = Len(a.status_history) + 1
                /\ SubSeq(b.status_history, 1, Len(a.status_history)) = a.status_history
                /\ b.status = LastEntry(b).status
                /\ b.status \in STATUSES]_vars

\* An application taken from interview back to applied.
C24_Witness ==
    \E i \in DOMAIN applications :
        LET h == applications[i].status_history
        IN /\ Len(h) = 3
           /\ h[2].status = "interview"
           /\ h[3].status = "applied"
           /\ applications[i].status = "applied"

\* C25: deduplication leaves no two application records that share a job
\* identity, whatever their organization names.
C25_SharedJobIdentityMerged ==
    \A i, j \in DOMAIN deduplicated(applications) :
        (/\ deduplicated(applications)[i].jobId # 0
         /\ deduplicated(applications)[i].jobId = deduplicated(applications)[j].jobId) => i = j

\* C26: deduplication keeps both of two applications to one organization
\* whose applied dates are more than a week apart and which share no job
\* identity.
C26_DistantApplicationsStay ==
    \A i, j \in DOMAIN applications :
        (/\ i < j
         /\ companyKey(applications[i]) = companyKey(applications[j])
         /\ (applications[i].date_applied - applications[j].date_applied > 7
             \/ applications[j].date_applied - applications[i].date_applied > 7)
         /\ ~(applications[i].jobId # 0 /\ applications[i].jobId = applications[j].jobId))
        => {applications[i].id, applications[j].id} \subseteq AppIds(deduplicated(applications))

\* C27: in a merge every field only improves: the merged record has a real
\* role if any merged record had one, and a jobId, a url and a location if
\* any merged record had them.
C27_MergeUpgradeOnly ==
    [][Merging =>
          \A k \in DOMAIN applications' :
              LET group == {i \in DOMAIN applications :
                               companyKey(applications[i]) = companyKey(applications'[k])}
                  real(role) == role \notin {"", "Unknown Role"}
              IN /\ (\E i \in group : real(applications[i].role)) => real(applications'[k].role)
                 /\ (\E i \in group : applications[i].jobId # 0) => applications'[k].jobId # 0
                 /\ (\E i \in group : applications[i].url # "") => applications'[k].url # ""
                 /\ (\E i \in group : applications[i].location # "") => applications'[k].location # ""]_vars

\* The folder scan's record of Acme after a merge: it has taken the role,
\* the jobId, the url and the location of the digest mark's record.
C27_Witness ==
    \E k \in DOMAIN applications :
        /\ applications[k].source = "company_site"
        /\ applications[k].date_applied = 1
        /\ applications[k].role = "Product Manager"
        /\ applications[k].jobId = 2
        /\ applications[k].url # ""
        /\ applications[k].location = "Remote"

\* C28: every application getStats counts in the interview numerator is
\* counted in the responded denominator.
C28_NumeratorWithinDenominator == interviews(applications) \subseteq responded(applications)

\* C29: every step of an enrichment invocation leaves, as the pending
\* identities a resumed invocation would find, the ones pending before in
\* the same order less identities the invocation has recorded, and none of
\* the recorded ones once the checkpoint is saved; and the invocation
\* fetches the pending lines in digest order, passing over none it has not
\* tried.
C29_ResumeKeepsPendingOrder ==
    [][(InFilterRun /\ run' # run) =>
          LET PendOrder(lines, results) ==
                  [n \in 1..Cardinality(remaining(lines, results)) |->
                      getJobId(lines[Ascending(remaining(lines, results))[n]].url)]
              before == PendOrder(digests[run.day], store[run.day])
              after == PendOrder(digests'[run.day], store'[run.day])
              still(id) == \E n \in DOMAIN after : after[n] = id
          IN /\ after = SelectSeq(before, still)
             /\ \A n \in DOMAIN before : ~still(before[n]) => before[n] \in DOMAIN run.results
             /\ (run.pc = "save" /\ store'[run.day] = run.results) =>
                    \A n \in DOMAIN after : after[n] \notin DOMAIN run.results
             /\ (run.pc = "loop" /\ run'.pc = "page") =>
                    /\ run'.k \in remaining(run.lines, run.results)
                    /\ run'.k >= run.k
                    /\ \A i \in remaining(run.lines, run.results) :
                           i < run'.k => getJobId(run.lines[i].url) \in run.skipped]_vars

\* A resumed invocation at work: the checkpoint it loaded holds what the
\* previous invocation completed, and it fetches a posting still pending.
C29_Witness ==
    /\ run.pc = "page"
    /\ DOMAIN store[run.day] # {}
    /\ DOMAIN store[run.day] = applied[run.day]
    /\ run.results = store[run.day]
    /\ run.k \in remaining(run.lines, run.results)

\* C30: on a digest that lacks the "## Other" section header or the header
\* count line no reconciler operation goes through: the document, the
\* checkpoint store and the record of applied results stay as they are.
C30_MalformedDigestLeftAlone ==
    [][(/\ digests[today] # <<>>
        /\ \/ otherStart(digests[today]) = 0
           \/ ~\E i \in 1..Len(digests[today]) : digests[today][i].kind = "count")
       => /\ digests' = digests
          /\ store' = store
          /\ applied' = applied
          /\ run' = run]_vars

\* C31: when a run stops at its batch limit, the completed count it reports
\* is the number of identities it recorded in this run, and the remaining
\* count it reports is the number of identities still pending (it prints no
\* remaining count only when none is pending).
C31_StopReportExact ==
    (run.pc = "write" /\ run.limited /\ hitBatchLimit(run, run.processed)) =>
        /\ run.processed = Cardinality(Unsaved)
        /\ IF remainingCount(run) > 0
           THEN remainingCount(run) = Cardinality(PendingIn(run.lines, run.results))
           ELSE PendingIn(run.lines, run.results) = {}

\* C32: when the email parser has read two records of one posting whose
\* company names differ and are both real (equally specific), the record it
\* resolves for the posting is the same whichever of the two arrived first.
C32_ArrivalOrderIrrelevant ==
    (intake.source = "email" /\ intake.read > 0) =>
        LET b == intake.last
            id == getJobId(b.url)
            real(company) == company \notin {"", "-"}
            Of(seq) == SelectSeq(seq, LAMBDA r : getJobId(r.url) = id)
            thisOrder == emailDedupe(intake.results \o <<b>>, <<>>)
            otherOrder == emailDedupe(<<b>> \o intake.results, <<>>)
        IN (/\ id # 0 /\ b.fits /\ ~isNonPmRole(b.title) /\ real(b.company)
            /\ \E k \in DOMAIN intake.results :
                   /\ getJobId(intake.results[k].url) = id
                   /\ real(intake.results[k].company)
                   /\ intake.results[k].company # b.company)
           => /\ thisOrder = intake.results
              /\ Of(thisOrder) = Of(otherOrder)

\* C33: with two invocations interleaving on today's digest, a record that
\* is in the checkpoint store stays in it: no save of one invocation drops
\* a record the other has saved.
C33_NoSavedRecordLost ==
    [][\A id \in DOMAIN store[today] : id \in DOMAIN store'[today]]_vars

\* C34: for a company folder whose organization the tracker already holds
\* with an applied date at most 2 days away, the sync creates no
\* application: the records stay the same in number and identity, and a
\* record of that organization is annotated (resume sent, and the cover
\* letter if the folder has one).
C34_FolderSyncAnnotatesExisting ==
    \A e \in FolderEntries :
        LET same == {k \in DOMAIN applications :
                        /\ companyKey(applications[k]) = trim(toLowerCase(e.company))
                        /\ daysDiff(applications[k], e) <= 2}
            after == syncAll(applications, digestCompanies(applications), <<e>>)
        IN same # {} =>
              /\ Len(after) = Len(applications)
              /\ AppIds(after) = AppIds(applications)
              /\ \E k \in same : /\ after[k].resume_sent
                                 /\ e.has_cover_letter => after[k].has_cover_letter
                                 /\ [after[k] EXCEPT !.resume_sent = FALSE, !.has_cover_letter = FALSE]
                                        = [applications[k] EXCEPT !.resume_sent = FALSE,
                                                                  !.has_cover_letter = FALSE]

\* The sync has annotated a record that a digest mark had created.
C34_Witness ==
    \E k \in DOMAIN applications :
        /\ applications[k].source = "linkedin"
        /\ applications[k].resume_sent
        /\ applications[k].has_cover_letter

\* C35: a step of updateStatus or addFeedback changes at most the record of
\* one id: the records are as many as before, in the same places, and all
\* but that one are what they were.
C35_OnlyTargetChanges ==
    [][(~\E data \in AddInputs : addApplication(data))
       => /\ Len(applications') = Len(applications)
          /\ \E id \in 1..MaxApps :
                 \A i \in DOMAIN applications :
                     applications[i].id # id => applications'[i] = applications[i]]_vars

\* Of two records one has been moved and annotated, the other is as it was
\* added.
C35_Witness ==
    /\ Len(applications) = 2
    /\ \E i, j \in DOMAIN applications :
           /\ applications[i].feedback_type # "null"
           /\ Len(applications[i].status_history) > 1
           /\ applications[j].feedback_type = "null"
           /\ Len(applications[j].status_history) = 1

\* C38: updateStatus and addFeedback called with an id the tracker does not
\* hold return null and leave the tracker as it is.
C38_UnknownIdChangesNothing ==
    \A id \in (1..MaxApps) \ AppIds(applications) :
        /\ \A st \in STATUSES, date \in 1..MaxDate :
               /\ updateStatusCall(applications, id, st, date).returned = "null"
               /\ updateStatusCall(applications, id, st, date).applications = applications
        /\ \A type \in FEEDBACK_TYPES :
               /\ addFeedbackCall(applications, id, type, "").returned = "null"
               /\ addFeedbackCall(applications, id, type, "").applications = applications

\* The tracker holds a record and not the one of id 2, which a call names.
C38_Witness ==
    /\ applications # <<>>
    /\ 2 \notin AppIds(applications)
    /\ applications[1].feedback_type # "null"
    /\ updateStatusCall(applications, 2, "rejected", MaxDate).returned = "null"

\* C36: after any sequence of addApplication, updateStatus and
\* deduplicateApplications, the status of every application is the status
\* of the last entry of its status_history.
C36_StatusIsLastHistoryEntry ==
    \A i \in DOMAIN applications :
        applications[i].status = applications[i].status_history[Len(applications[i].status_history)].status

\* A merged record: its history holds the entries of two records.
C36_Witness ==
    \E i \in DOMAIN applications :
        /\ Len(applications[i].status_history) > 2
        /\ Cardinality({k \in DOMAIN applications[i].status_history :
                           applications[i].status_history[k].status = "applied"}) = 2

\* C37: after any sequence of addApplication, updateStatus and
\* deduplicateApplications, an application whose history has a `responded`
\* entry has a response_date and response_days, one whose history has a
\* `rejected` entry has a rejection_date, and one whose history has an
\* `offer` entry has an offer_date.
C37_DatesAgreeWithHistory ==
    \A i \in DOMAIN applications :
        LET app == applications[i]
            has(st) == \E k \in DOMAIN app.status_history : app.status_history[k].status = st
        IN /\ has("responded") => (app.response_date # 0 /\ app.response_days # <<>>)
           /\ has("rejected") => app.rejection_date # 0
           /\ has("offer") => app.offer_date # 0

\* C39: deduplicateApplications is idempotent: in what one run leaves no
\* two applications have the same normalized company name, and a second
\* run leaves it as it is.
C39_DedupeIdempotent ==
    LET once == deduplicated(applications)
    IN /\ \A i, j \in DOMAIN once : companyKey(once[i]) = companyKey(once[j]) => i = j
       /\ deduplicated(once) = once

\* A tracker that a run has just merged: one record of Acme with the
\* history and the posting of another, which a second run leaves alone.
C39_Witness ==
    /\ Len(applications) = 1
    /\ applications[1].source = "company_site"
    /\ applications[1].jobId = 2
    /\ Len(applications[1].status_history) > 2
    /\ deduplicated(applications) = applications
====
